---- MODULE Spec2Model ----
(***************************************************************************)
(* A state-machine model of SlimCryptDB (src/SlimCryptDB.js): the lock     *)
(* manager, the transaction manager, the in-memory indexes, the table      *)
(* files and the write-ahead log with crash and recovery.                  *)
(*                                                                         *)
(* Every async handler is cut at its suspension points (a lock wait, file  *)
(* I/O); what runs between two suspension points is one action.            *)
(***************************************************************************)
EXTENDS Integers, Sequences, FiniteSets, TLC

\* ---------------------------------------------------------------- bounds
MaxTx == 3          \* transactions ever started (lock manager runs)
MaxDataTx == 2      \* transactions ever started (data runs)
MaxActive == 1      \* transactions open at the same time (data runs)
MaxTime == 3        \* the clock Date.now() runs over 0..MaxTime
MaxOps == 2         \* operations buffered in one transaction
MaxId == 2          \* row ids the callers supply are 1..MaxId
MaxWalTx == 2       \* transactions ever started (write-ahead log runs)
MaxCrash == 1       \* crashes of the process
MaxDirTx == 1       \* transactions ever started (directory runs)
MaxLines == 3       \* entries of the write-ahead log, written or buffered
MaxKeyTx == 1       \* transactions ever started (runs with two keys)
MaxImplicit == 3    \* concurrent addData calls without a transaction id
MaxReadTx == 2      \* transactions ever started (runs with a reader)
MaxInitTx == 2      \* transactions ever started (runs with early callers)
MaxDeadTx == 2      \* transactions ever started (runs with terminated ids)
MaxIdTx == 3        \* transactions ever started (runs on row ids)
MaxGenerated == 1   \* distinct values crypto.randomBytes gives for an id
MaxListenTx == 2    \* transactions ever started (runs with listeners)
MaxSchemaTx == 2    \* transactions ever started (runs with schemas)
MaxClose == 3       \* close() calls on one instance
MaxCloseTx == 2     \* transactions ever started (runs that close)
MaxFlushSeq == 3    \* _writeWAL calls (runs with flushes in flight)
MaxAtomicTx == 3    \* addData calls without a transaction id, one at a time
MaxRestartTx == 3   \* addData calls without a transaction id (runs that reopen)
MaxRetypeTx == 2    \* transactions ever started (runs with an array-typed column)
MaxBlockSize == 7   \* options.walPaddingSize, in bytes
MaxPlainLen == 4    \* length of a plaintext buffer, in bytes
MaxTrailer == 9     \* the length a rewritten trailer of a padded buffer gives
MaxLegacyTx == 2    \* startTransaction calls of the caller (legacy slimDB)
MaxLegacyOps == 2   \* operations pushed on one transaction (legacy slimDB)
MaxLegacyId == 8    \* transaction ids ever generated (legacy slimDB)
MaxLimit == 2       \* the largest limit of a query
MaxOffset == 1      \* the largest offset of a query
LockTimeoutTicks == 2   \* options.lockTimeout, in clock ticks

Tables == {"A", "B"}
TxIds == 1..MaxTx
NoTx == 0           \* locks.get(tableName) === undefined
Emails == {"a", "b"}
IndexNames == {"email_idx"}

\* A row is an object {id, email}.
Row(i, e) == [id |-> i, email |-> e]
Rows == {Row(i, e) : i \in 1..MaxId, e \in Emails}

VARIABLES
    now,            \* Date.now()
    options,        \* this.options: walEnabled, syncWrites, lockTimeout
    phase,          \* "ready" while the engine runs, "down" after a crash,
                    \* "closed" after close()
    tables,         \* the table files: table name -> the rows of the object
    indexes,        \* this.indexes, in insertion order
    locks,          \* this.locks: table name -> holder
    lockQueue,      \* this.lockQueue: table name -> waiters
    transactions,   \* the keys of this.transactions
    txOps,          \* transaction.operations of each transaction object
    txLocks,        \* transaction.locks of each transaction object
    nextTx,         \* the next fresh transaction id
    calls,          \* the addData/updateData/deleteData call of each transaction
    callStatus,     \* where that call stands
    callResult,     \* how the last call of each transaction ended
    commits,        \* the commitTransaction call of each transaction
    commitResult,   \* how the commitTransaction calls on each transaction ended
    walSequence,    \* this.walSequence
    walBuffer,      \* this.walBuffer
    walDisk,        \* the lines of the WAL segments, in replay order
    crashes,        \* crashes so far
    lastIntent,     \* per table, the rows of the last write intent handed to
                    \* _writeWAL (the rows of the empty table before the first)
    encryptionKey,  \* this.encryptionKey
    files,          \* per table file: whether it exists, the shape of the
                    \* object it holds, the key that sealed it, and what was
                    \* done to its tag and ciphertext fields since
    readResult,     \* how the last readData or queryData call ended
    lastWALRecoveryFailures,    \* this.lastWALRecoveryFailures
    listeners,      \* the events of this.eventEmitter that have a listener
                    \* which throws
    schemas,        \* this.schemas: table name -> the schema createTable
                    \* was given
    saltFile,       \* whether the file wal/.salt exists
    walSalt,        \* this.walSalt
    walKey,         \* this.walKey
    closeCalls,     \* the close() calls on this instance that have returned
    indexFiles,     \* the files indexes/<name>.idx: what _saveIndex wrote
    slimDB,         \* the legacy store of src/slimDB.js: its transactions map
                    \* and what the call made last executed
    walPadding,     \* a plaintext buffer on its way through
                    \* _applyWALPaddingBuffer and _removeWALPaddingBuffer
    retyped,        \* the property schemas of this.schemas whose type
                    \* _validateDataAgainstSchema has set to 'object'
    flushing        \* the _flushWAL calls (and the _checkpoint calls around
                    \* them) that are awaiting the file system

lockVars == <<locks, lockQueue, txLocks, callStatus>>
txVars == <<transactions, txOps, nextTx, calls, callResult, commits, commitResult>>
walVars == <<walSequence, walBuffer, walDisk, flushing>>
fileVars == <<encryptionKey, files, readResult, lastWALRecoveryFailures>>
closeVars == <<saltFile, walSalt, walKey, closeCalls, indexFiles, walPadding,
              slimDB>>
vars == <<now, options, listeners, schemas, retyped, closeVars, phase, tables, indexes, lockVars, txVars, walVars,
          crashes, lastIntent, fileVars>>

\* ---------------------------------------------------------- lock manager
\* The lock state the lock manager reads and writes, as one value.
LockState == [locks |-> locks, lockQueue |-> lockQueue, txLocks |-> txLocks,
              callStatus |-> callStatus]

\* an _acquireLock that grants the lock whoever holds it
MutAcquireAlways(L, tableName, transactionId) ==
    [L EXCEPT !.locks[tableName] = transactionId,
              !.txLocks[transactionId] =
                  IF transactionId \in transactions THEN @ \cup {tableName} ELSE @,
              !.callStatus[transactionId] = "granted"]

\* _acquireLock: the lock is granted when free or already held by the caller;
\* otherwise the caller is rejected when its deadline has passed already, or
\* queued as a waiter.
AcquireLock(L, tableName, transactionId) ==
    LET lockTimeout == options.lockTimeout
        startTime == now
        currentLock == L.locks[tableName]
    IN  IF currentLock = NoTx \/ currentLock = transactionId
        THEN [L EXCEPT !.locks[tableName] = transactionId,
                       !.txLocks[transactionId] =
                           IF transactionId \in transactions
                           THEN @ \cup {tableName} ELSE @,
                       !.callStatus[transactionId] = "granted"]
        ELSE IF now - startTime >= lockTimeout
        THEN [L EXCEPT !.callStatus[transactionId] = "rejected"]
        ELSE [L EXCEPT !.lockQueue[tableName] =
                           Append(@, [transactionId |-> transactionId,
                                      startTime |-> startTime,
                                      timeout |-> lockTimeout]),
                       !.callStatus[transactionId] = "waiting"]

\* a _releaseLock that releases nothing
MutReleaseNothing(L, tableName, transactionId) == L

\* _releaseLock: only the holder releases; the first waiter is taken off the
\* queue and is granted the lock or, when its deadline has passed, rejected.
ReleaseLock(L, tableName, transactionId) ==
    IF L.locks[tableName] # transactionId THEN L
    ELSE LET queue == L.lockQueue[tableName] IN
         IF Len(queue) = 0 THEN [L EXCEPT !.locks[tableName] = NoTx]
         ELSE LET nextWaiter == Head(queue) IN
              IF now - nextWaiter.startTime < nextWaiter.timeout
              THEN [L EXCEPT !.locks[tableName] = nextWaiter.transactionId,
                             !.lockQueue[tableName] = Tail(queue),
                             !.txLocks[nextWaiter.transactionId] =
                                 IF nextWaiter.transactionId \in transactions
                                 THEN @ \cup {tableName} ELSE @,
                             !.callStatus[nextWaiter.transactionId] = "granted"]
              ELSE [L EXCEPT !.locks[tableName] = NoTx,
                             !.lockQueue[tableName] = Tail(queue),
                             !.callStatus[nextWaiter.transactionId] = "rejected"]

\* "for (const tableName of transaction.locks) this._releaseLock(...)"
RECURSIVE ReleaseLocks(_, _, _)
ReleaseLocks(L, held, transactionId) ==
    IF held = {} THEN L
    ELSE LET tableName == CHOOSE t \in held : TRUE
         IN  ReleaseLocks(ReleaseLock(L, tableName, transactionId),
                          held \ {tableName}, transactionId)

SetLockState(L) ==
    /\ locks' = L.locks
    /\ lockQueue' = L.lockQueue
    /\ txLocks' = L.txLocks
    /\ callStatus' = L.callStatus

\* -------------------------------------------------------- index manager
\* _buildIndexKey: columns.map(col => item[col]).join('::').  The key is kept
\* as the tuple of the column values; the values here are strings without
\* "::", for which the join is one-to-one; a column the item lacks gives the
\* empty string, as join does for undefined.
BuildIndexKey(item, columns) ==
    [i \in 1..Len(columns) |->
         IF columns[i] \in DOMAIN item THEN item[columns[i]] ELSE ""]

\* ids.indexOf(id): the first position of id in ids, 0 when absent (JS: -1)
IndexOf(ids, id) ==
    IF \E i \in 1..Len(ids) : ids[i] = id
    THEN CHOOSE i \in 1..Len(ids) : ids[i] = id /\ \A j \in 1..(i - 1) : ids[j] # id
    ELSE 0

\* ids.splice(idIndex, 1)
Splice(ids, idIndex) ==
    [j \in 1..(Len(ids) - 1) |-> IF j < idIndex THEN ids[j] ELSE ids[j + 1]]

\* "if (!index.data.has(key)) index.data.set(key, []); index.data.get(key).push(id)"
IndexPush(data, key, id) ==
    IF key \in DOMAIN data
    THEN [data EXCEPT ![key] = Append(@, id)]
    ELSE [k \in DOMAIN data \cup {key} |-> IF k = key THEN <<id>> ELSE data[k]]

\* the removal of id from the bucket of key, the empty bucket deleted
IndexRemove(data, key, id) ==
    IF key \notin DOMAIN data THEN data
    ELSE LET ids == data[key]
             idIndex == IndexOf(ids, id)
         IN  IF idIndex = 0 THEN data
             ELSE IF Len(ids) = 1
             THEN [k \in DOMAIN data \ {key} |-> data[k]]
             ELSE [data EXCEPT ![key] = Splice(ids, idIndex)]

\* _updateIndexesForAdd, from the i-th index on: a unique violation throws and
\* leaves the indexes already updated as they are.
RECURSIVE UpdateIndexesForAddFrom(_, _, _, _)
UpdateIndexesForAddFrom(idxs, i, tableName, data) ==
    IF i > Len(idxs) THEN [indexes |-> idxs, error |-> "none"]
    ELSE LET index == idxs[i] IN
         IF index.tableName # tableName
         THEN UpdateIndexesForAddFrom(idxs, i + 1, tableName, data)
         ELSE LET indexKey == BuildIndexKey(data, index.columns) IN
              IF index.unique /\ indexKey \in DOMAIN index.data
              THEN [indexes |-> idxs, error |-> "UniqueViolation"]
              ELSE UpdateIndexesForAddFrom(
                       [idxs EXCEPT ![i].data = IndexPush(@, indexKey, data.id)],
                       i + 1, tableName, data)

UpdateIndexesForAdd(idxs, tableName, data) ==
    UpdateIndexesForAddFrom(idxs, 1, tableName, data)

\* _updateIndexesForUpdate
RECURSIVE UpdateIndexesForUpdateFrom(_, _, _, _, _)
UpdateIndexesForUpdateFrom(idxs, i, tableName, oldData, newData) ==
    IF i > Len(idxs) THEN [indexes |-> idxs, error |-> "none"]
    ELSE LET index == idxs[i] IN
         IF index.tableName # tableName
         THEN UpdateIndexesForUpdateFrom(idxs, i + 1, tableName, oldData, newData)
         ELSE LET oldKey == BuildIndexKey(oldData, index.columns)
                  newKey == BuildIndexKey(newData, index.columns)
              IN  IF oldKey = newKey
                  THEN UpdateIndexesForUpdateFrom(idxs, i + 1, tableName,
                                                  oldData, newData)
                  ELSE IF /\ index.unique
                          /\ newKey \in DOMAIN index.data
                          /\ IndexOf(index.data[newKey], oldData.id) = 0
                  THEN [indexes |-> idxs, error |-> "UniqueViolation"]
                  ELSE UpdateIndexesForUpdateFrom(
                           [idxs EXCEPT ![i].data =
                                IndexPush(IndexRemove(@, oldKey, oldData.id),
                                          newKey, newData.id)],
                           i + 1, tableName, oldData, newData)

UpdateIndexesForUpdate(idxs, tableName, oldData, newData) ==
    UpdateIndexesForUpdateFrom(idxs, 1, tableName, oldData, newData)

\* _updateIndexesForDelete
RECURSIVE UpdateIndexesForDeleteFrom(_, _, _, _)
UpdateIndexesForDeleteFrom(idxs, i, tableName, data) ==
    IF i > Len(idxs) THEN idxs
    ELSE LET index == idxs[i] IN
         IF index.tableName # tableName
         THEN UpdateIndexesForDeleteFrom(idxs, i + 1, tableName, data)
         ELSE UpdateIndexesForDeleteFrom(
                  [idxs EXCEPT ![i].data =
                       IndexRemove(@, BuildIndexKey(data, index.columns), data.id)],
                  i + 1, tableName, data)

UpdateIndexesForDelete(idxs, tableName, data) ==
    UpdateIndexesForDeleteFrom(idxs, 1, tableName, data)

\* createIndex builds the map from the rows of the table: one bucket per key,
\* the ids in row order; a unique index refuses a key met twice.
RECURSIVE BuildIndexData(_, _, _, _)
BuildIndexData(rows, columns, isUnique, index) ==
    IF Len(rows) = 0 THEN [data |-> index, error |-> "none"]
    ELSE LET item == Head(rows)
             indexKey == BuildIndexKey(item, columns)
         IN  IF isUnique /\ indexKey \in DOMAIN index
             THEN [data |-> index, error |-> "DuplicateKey"]
             ELSE BuildIndexData(Tail(rows), columns, isUnique,
                                 IndexPush(index, indexKey, item.id))

EmptyMap == [k \in {} |-> <<>>]

\* this.indexes.set(indexName, ...): a known name keeps its place in the map
SetIndex(idxs, entry) ==
    IF \E i \in 1..Len(idxs) : idxs[i].name = entry.name
    THEN [i \in 1..Len(idxs) |-> IF idxs[i].name = entry.name THEN entry ELSE idxs[i]]
    ELSE Append(idxs, entry)

\* ------------------------------------------------------------ table store
\* "Object.entries(filter).every(([key, value]) => item[key] === value)"
Matches(item, filter) == \A key \in DOMAIN filter : item[key] = filter[key]

\* existingData.filter(...)
FilterRows(rows, filter) ==
    LET Keep(item) == Matches(item, filter) IN SelectSeq(rows, Keep)

\* "{ ...record, ...updateData }", then "updatedRecord.id = record.id"
MutMergePatchId(record, patch) ==
    [k \in DOMAIN record \cup DOMAIN patch |->
         IF k \in DOMAIN patch THEN patch[k] ELSE record[k]]

Merge(record, patch) ==
    LET merged == [k \in DOMAIN record \cup DOMAIN patch |->
                       IF k \in DOMAIN patch THEN patch[k] ELSE record[k]]
    IN  IF record.id # 0 THEN [merged EXCEPT !.id = record.id] ELSE merged

\* existingData.findIndex(item => item.id === id), 0 when absent (JS: -1)
FindIndex(rows, id) ==
    IF \E i \in 1..Len(rows) : rows[i].id = id
    THEN CHOOSE i \in 1..Len(rows) :
             rows[i].id = id /\ \A j \in 1..(i - 1) : rows[j].id # id
    ELSE 0

\* The rows _applyAddOperation / _applyUpdateOperation / _applyDeleteOperation
\* compute from the rows they read, or the error they throw.
ApplyOperationRows(existingData, operation) ==
    IF operation.type = "add"
    THEN IF \E i \in 1..Len(existingData) : existingData[i].id = operation.data.id
         THEN [rows |-> existingData, error |-> "DuplicateID"]
         ELSE [rows |-> Append(existingData, operation.data), error |-> "none"]
    ELSE LET index == FindIndex(existingData, operation.id) IN
         IF index = 0 THEN [rows |-> existingData, error |-> "NotFound"]
         ELSE IF operation.type = "update"
         THEN [rows |-> [existingData EXCEPT ![index] = operation.newData],
               error |-> "none"]
         ELSE [rows |-> Splice(existingData, index), error |-> "none"]

\* ------------------------------------------------------------- encryption
Keys == {"K1", "K2"}
MasterKey == "K1"   \* the key the directory is created under
NoKey == "null"     \* this.encryptionKey = null

\* AES-256-GCM: the ciphertext of a plaintext under a key, and the tag that
\* authenticates a ciphertext under a key
Seal(key, plaintext) == [sealedWith |-> key, plaintext |-> plaintext]
AuthTag(key, ciphertext) == [under |-> key, tagOf |-> ciphertext]

\* bytes that are not what the engine wrote
Changed == [changed |-> TRUE]

\* buffer.toString('hex'): lower-case hex digits
ToHex(bytes) == [bytes |-> bytes, letters |-> "lower"]

\* Buffer.from(text, 'hex'): the case of the hex digits does not matter
FromHex(text) == text.bytes

\* _encryptData: "iv:authTag:ciphertext", hex encoded (the iv is left out)
EncryptData(key, data) ==
    [authTag |-> ToHex(AuthTag(key, Seal(key, data))),
     ciphertext |-> ToHex(Seal(key, data))]

\* JSON null
Null == [null |-> TRUE]

\* a decryption that accepts a tag made under any key
MutDecryptAnyKey(key, encryptedData) ==
    LET authTag == FromHex(encryptedData.authTag)
        ciphertext == FromHex(encryptedData.ciphertext)
    IN  IF authTag.tagOf = ciphertext
        THEN [error |-> "none", data |-> ciphertext.plaintext]
        ELSE [error |-> "AuthenticationFailed", data |-> Null]

\* _decryptData: the plaintext object, or an authentication failure
DecryptData(key, encryptedData) ==
    LET authTag == FromHex(encryptedData.authTag)
        ciphertext == FromHex(encryptedData.ciphertext)
    IN  IF authTag = AuthTag(key, ciphertext)
        THEN [error |-> "none", data |-> ciphertext.plaintext]
        ELSE [error |-> "AuthenticationFailed", data |-> Null]

\* createTable(tableName) passes schema = null
NoSchema == "null"
Schemas == {NoSchema, "S"}
SchemaObject(schema) == IF schema = NoSchema THEN Null ELSE [type |-> schema]

\* what a table file records beside its rows
CreatedFile(schema, key) ==
    [exists |-> TRUE, shape |-> "created", schema |-> schema, key |-> key,
     authTag |-> "intact", ciphertext |-> "intact"]
WrittenFile(key) ==
    [exists |-> TRUE, shape |-> "written", schema |-> NoSchema, key |-> key,
     authTag |-> "intact", ciphertext |-> "intact"]
RecoveredFile(schema, key) ==
    [exists |-> TRUE, shape |-> "recovered", schema |-> schema, key |-> key,
     authTag |-> "intact", ciphertext |-> "intact"]
NoFile == [CreatedFile(NoSchema, NoKey) EXCEPT !.exists = FALSE]

\* the object a table file holds: createTable writes {name, schema, rows, ...},
\* _writeDataDirect {name, rows, lastModified}, and _applyWALEntry hands the
\* schema of a create_table entry to _createTableDirect as the whole object
Plaintext(file, tableName, rows) ==
    CASE file.shape = "created" ->
             [name |-> tableName, schema |-> file.schema, rows |-> rows]
      [] file.shape = "written" -> [name |-> tableName, rows |-> rows]
      [] OTHER -> SchemaObject(file.schema)

\* a field of a file after somebody edited it: the same bytes in other hex
\* digits, or other bytes
Edited(text, how) ==
    CASE how = "intact" -> text
      [] how = "recased" -> [text EXCEPT !.letters = "upper"]
      [] OTHER -> [text EXCEPT !.bytes = Changed]

\* the content of a table file
TableFile(file, tableName, rows) ==
    LET written == EncryptData(file.key, Plaintext(file, tableName, rows))
    IN  [authTag |-> Edited(written.authTag, file.authTag),
         ciphertext |-> Edited(written.ciphertext, file.ciphertext)]

\* readData(tableName, {}): "tableData.rows || []" of the decrypted object
ReadTable(key, file, tableName, rows) ==
    IF ~file.exists THEN [error |-> "TableDoesNotExist", rows |-> <<>>]
    ELSE LET tableData == DecryptData(key, TableFile(file, tableName, rows)) IN
         IF tableData.error # "none"
         THEN [error |-> tableData.error, rows |-> <<>>]
         ELSE IF tableData.data = Null
         THEN [error |-> "TypeError", rows |-> <<>>]
         ELSE IF "rows" \in DOMAIN tableData.data
         THEN [error |-> "none", rows |-> tableData.data.rows]
         ELSE [error |-> "none", rows |-> <<>>]

\* readData of a table as the directory stands
ReadData(tableName) ==
    ReadTable(encryptionKey, files[tableName], tableName, tables[tableName])

\* -------------------------------------------------------------------- WAL
\* _calculateChecksum: sha256 of the operation's JSON text
Checksum(operation) == <<"sha256", operation>>

WalState == [walSequence |-> walSequence, walBuffer |-> walBuffer,
             walDisk |-> walDisk]

\* _deriveWALKey: PBKDF2 of the encryption key and the salt of the directory
DeriveWALKey(key) == [derivedFrom |-> key]

\* this.walKey = null
NoWALKey == DeriveWALKey(NoKey)

\* the salt wal/.salt holds (crypto.randomBytes(32) at the first start)
Salt == "salt"

\* _initializeWALEncryption writing the salt file whatever the options are
MutSaltAlways(opts, key, saltExists) ==
    [saltFile |-> TRUE,
     walSalt |-> Salt,
     walKey |-> IF opts.encrypt /\ key # NoKey /\ opts.walEnabled
                THEN DeriveWALKey(key) ELSE NoWALKey]

\* _initializeWALEncryption: the salt is read from wal/.salt or, when the file
\* is missing, generated and, with encrypt on, written to it; the WAL key is
\* derived with encrypt and walEnabled on
InitializeWALEncryption(opts, key, saltExists) ==
    [saltFile |-> saltExists \/ opts.encrypt,
     walSalt |-> Salt,
     walKey |-> IF opts.encrypt /\ key # NoKey /\ opts.walEnabled
                THEN DeriveWALKey(key) ELSE NoWALKey]

\* lengthBuffer.writeUInt32BE(n, 0): four bytes, the most significant first
\* (the lengths of these runs are far below 2^31)
UInt32BE(n) ==
    <<(n \div 16777216) % 256, (n \div 65536) % 256, (n \div 256) % 256, n % 256>>

\* paddedBuffer.readUInt32BE(offset), offsets counted from 0
ReadUInt32BE(buffer, offset) ==
    buffer[offset + 1] * 16777216 + buffer[offset + 2] * 65536
        + buffer[offset + 3] * 256 + buffer[offset + 4]

\* Math.ceil(a / b) of two positive integers
Ceil(a, b) == (a + b - 1) \div b

\* a padded size with one block more than Math.ceil gives
MutPaddedSizeExtraBlock(textLength, blockSize) ==
    IF textLength >= blockSize - 4
    THEN (((textLength + 4) \div blockSize) + 1) * blockSize
    ELSE blockSize

\* paddedSize of _applyWALPaddingBuffer
PaddedSize(textLength, blockSize) ==
    IF textLength >= blockSize - 4
    THEN Ceil(textLength + 4, blockSize) * blockSize
    ELSE blockSize

\* paddingLength of _applyWALPaddingBuffer
PaddingLength(textLength, blockSize) == PaddedSize(textLength, blockSize) - textLength - 4

\* _applyWALPaddingBuffer: padding are the bytes crypto.randomBytes returned
ApplyWALPaddingBuffer(plaintextBuffer, padding) ==
    plaintextBuffer \o padding \o UInt32BE(Len(plaintextBuffer))

\* _removeWALPaddingBuffer
RemoveWALPaddingBuffer(paddedBuffer) ==
    IF Len(paddedBuffer) < 4
    THEN [error |-> "Invalid padded buffer: too short", data |-> <<>>]
    ELSE LET originalLength == ReadUInt32BE(paddedBuffer, Len(paddedBuffer) - 4) IN
         IF originalLength < 0 \/ originalLength > Len(paddedBuffer) - 4
         THEN [error |-> "Invalid original length", data |-> <<>>]
         ELSE [error |-> "none", data |-> SubSeq(paddedBuffer, 1, originalLength)]

\* no buffer is being padded
NoPadding == [pc |-> "none", plaintext |-> <<>>, padded |-> <<>>,
              rewritten |-> FALSE, removed |-> [error |-> "none", data |-> <<>>]]

\* a line that is no JSON text
NotJSON == [notJSON |-> TRUE]

\* _encryptWALData: "WAL:iv:authTag:ciphertext", hex encoded
EncryptWALData(key, walEntry) ==
    LET sealed == EncryptData(DeriveWALKey(key), walEntry) IN
    [prefix |-> "WAL:", authTag |-> sealed.authTag,
     ciphertext |-> sealed.ciphertext, json |-> NotJSON]

\* a line without the "WAL:" prefix: the JSON text of an entry, or other text
PlainLine(json) ==
    [prefix |-> "", authTag |-> ToHex(Changed), ciphertext |-> ToHex(Changed),
     json |-> json]

\* _decryptWALData: a line without the prefix is parsed as JSON ("legacy
\* unencrypted WAL files"), any other is decrypted under the WAL key
DecryptWALData(key, line) ==
    IF line.prefix # "WAL:"
    THEN IF line.json = NotJSON
         THEN [error |-> "InvalidWALDataFormat", data |-> Null]
         ELSE [error |-> "none", data |-> line.json]
    ELSE LET walEntry == DecryptData(DeriveWALKey(key), line) IN
         IF walEntry.error # "none"
         THEN [error |-> "WALDecryptionFailed", data |-> Null]
         ELSE walEntry

\* _flushWAL: the buffered entries are encrypted one by one and appended to a
\* segment, the buffer emptied
FlushWAL(W) ==
    IF Len(W.walBuffer) = 0 THEN W
    ELSE [W EXCEPT !.walDisk = @ \o [i \in 1..Len(W.walBuffer) |->
                                        EncryptWALData(encryptionKey, W.walBuffer[i])],
                   !.walBuffer = <<>>]

\* a _writeWAL that numbers every entry 1
MutWriteSequenceOne(W, operation) ==
    LET walEntry == [sequence |-> 1, timestamp |-> now, operation |-> operation,
                     checksum |-> Checksum(operation)]
        pushed == [W EXCEPT !.walSequence = @ + 1,
                            !.walBuffer = Append(@, walEntry)]
    IN  IF options.syncWrites THEN FlushWAL(pushed) ELSE pushed

\* a _writeWAL that logs nothing
MutWriteNothing(W, operation) == W

\* _writeWAL with syncWrites set: every entry is flushed before it returns
WriteWAL(W, operation) ==
    IF ~options.walEnabled THEN W
    ELSE LET walEntry == [sequence |-> W.walSequence + 1,
                          timestamp |-> now,
                          operation |-> operation,
                          checksum |-> Checksum(operation)]
             pushed == [W EXCEPT !.walSequence = @ + 1,
                                 !.walBuffer = Append(@, walEntry)]
         IN  IF options.syncWrites THEN FlushWAL(pushed) ELSE pushed

SetWalState(W) ==
    /\ walSequence' = W.walSequence
    /\ walBuffer' = W.walBuffer
    /\ walDisk' = W.walDisk
    /\ UNCHANGED flushing

\* _applyWALEntry: the checksum is verified, then the operation is applied
\* to the directory D = [tables, files]
ApplyWALEntry(D, walEntry, key) ==
    LET operation == walEntry.operation
        tableName == operation.tableName
    IN  IF Checksum(operation) # walEntry.checksum
        THEN [error |-> "ChecksumMismatch", D |-> D]
        ELSE [error |-> "none",
              D |-> CASE operation.type = "write" ->
                         [tables |-> [D.tables EXCEPT ![tableName] = operation.data],
                          files |-> [D.files EXCEPT ![tableName] = WrittenFile(key)]]
                      [] operation.type = "create_table" ->
                         [tables |-> [D.tables EXCEPT ![tableName] = <<>>],
                          files |-> [D.files EXCEPT ![tableName] =
                                         RecoveredFile(operation.schema, key)]]
                      [] operation.type = "delete_table" ->
                         [tables |-> [D.tables EXCEPT ![tableName] = <<>>],
                          files |-> [D.files EXCEPT ![tableName] = NoFile]]
                      [] OTHER -> D]

\* a recovery that gives up at the first line that fails
RECURSIVE MutRecoverStops(_, _, _, _, _)
MutRecoverStops(D, failures, lines, key, n) ==
    IF n > Len(lines) THEN [D |-> D, failures |-> failures]
    ELSE LET walEntry == DecryptWALData(key, lines[n])
             applied == ApplyWALEntry(D, walEntry.data, key)
         IN  IF walEntry.error # "none"
             THEN [D |-> D, failures |-> Append(failures, [entry |-> n,
                                                           error |-> walEntry.error])]
             ELSE IF applied.error # "none"
             THEN [D |-> D, failures |-> Append(failures, [entry |-> n,
                                                           error |-> applied.error])]
             ELSE MutRecoverStops(applied.D, failures, lines, key, n + 1)

\* _recoverFromWAL from line n of the segments on: every line is decrypted and
\* applied; a line that fails is recorded and the next one is taken up
RECURSIVE RecoverFromWAL(_, _, _, _, _)
RecoverFromWAL(D, failures, lines, key, n) ==
    IF n > Len(lines) THEN [D |-> D, failures |-> failures]
    ELSE LET walEntry == DecryptWALData(key, lines[n])
             applied == ApplyWALEntry(D, walEntry.data, key)
         IN  IF walEntry.error # "none"
             THEN RecoverFromWAL(D, Append(failures, [entry |-> n,
                                                      error |-> walEntry.error]),
                                 lines, key, n + 1)
             ELSE IF applied.error # "none"
             THEN RecoverFromWAL(D, Append(failures, [entry |-> n,
                                                      error |-> applied.error]),
                                 lines, key, n + 1)
             ELSE RecoverFromWAL(applied.D, failures, lines, key, n + 1)

\* ----------------------------------------------------------- query engine
\* The columns that hold numbers; the other columns hold strings.
NumberColumns == {"id"}

\* a limit or an offset the query does not give (undefined)
Absent == -1

NoFilter == [operator |-> "none", conditions |-> <<>>]
NoSort == [column |-> "", direction |-> ""]
NoQuery == [filter |-> NoFilter, sort |-> NoSort, limit |-> Absent,
            offset |-> Absent]

ComparisonOperators == {"==", "!=", ">", ">=", "<", "<=", "in", "like", "contains"}

\* the characters of the strings that occur as values
Letters(s) ==
    CASE s = "" -> <<>>
      [] s = "a" -> <<"a">>
      [] s = "b" -> <<"b">>
      [] s = "A" -> <<"A">>
      [] s = "d" -> <<"d">>
      [] s = "undefined" -> <<"u", "n", "d", "e", "f", "i", "n", "e", "d">>

\* String(n) of a natural number
RECURSIVE Digits(_)
Digits(n) ==
    LET digit == <<"0", "1", "2", "3", "4", "5", "6", "7", "8", "9">> IN
    IF n < 10 THEN <<digit[n + 1]>>
    ELSE Append(Digits(n \div 10), digit[(n % 10) + 1])

\* String(item[column]), as RegExp.prototype.test coerces its argument
TextOf(item, column) ==
    IF column \notin DOMAIN item THEN Letters("undefined")
    ELSE IF column \in NumberColumns THEN Digits(item[column])
    ELSE Letters(item[column])

\* the 'i' flag: letters are compared without case
Lower(text) == [i \in 1..Len(text) |-> IF text[i] = "A" THEN "a" ELSE text[i]]

\* new RegExp(pattern).test(text) for a pattern of plain letters: the pattern
\* occurs somewhere in the text
Within(pattern, text) ==
    \E i \in 0..(Len(text) - Len(pattern)) :
        \A j \in 1..Len(pattern) : text[i + j] = pattern[j]

\* the UTF-16 code unit of a character
CharCode(c) ==
    CASE c = "A" -> 65 [] c = "a" -> 97 [] c = "b" -> 98 [] c = "d" -> 100
      [] c = "e" -> 101 [] c = "f" -> 102 [] c = "i" -> 105 [] c = "n" -> 110
      [] c = "u" -> 117

\* a < b for two strings
RECURSIVE TextLess(_, _)
TextLess(a, b) ==
    IF Len(b) = 0 THEN FALSE
    ELSE IF Len(a) = 0 THEN TRUE
    ELSE IF Head(a) # Head(b) THEN CharCode(Head(a)) < CharCode(Head(b))
    ELSE TextLess(Tail(a), Tail(b))

\* a < b for two values of a column
Less(a, b, column) ==
    IF column \in NumberColumns THEN a < b ELSE TextLess(Letters(a), Letters(b))

\* _evaluateCondition.  A comparison with undefined (the item lacks the
\* column) is false for ===, >, >=, <, <= and includes, and true for !==.
EvaluateCondition(item, condition) ==
    IF condition.operator \notin ComparisonOperators THEN FALSE
    ELSE LET column == condition.column
             value == condition.value
             has == column \in DOMAIN item
         IN  CASE condition.operator = "==" -> has /\ item[column] = value
               [] condition.operator = "!=" -> ~has \/ item[column] # value
               [] condition.operator = ">" -> has /\ Less(value, item[column], column)
               [] condition.operator = ">=" -> has /\ ~Less(item[column], value, column)
               [] condition.operator = "<" -> has /\ Less(item[column], value, column)
               [] condition.operator = "<=" -> has /\ ~Less(value, item[column], column)
               [] condition.operator = "in" ->
                      has /\ \E i \in 1..Len(value) : value[i] = item[column]
               [] condition.operator = "like" ->
                      Within(Lower(Letters(value)), Lower(TextOf(item, column)))
               [] condition.operator = "contains" ->
                      Within(Letters(value), TextOf(item, column))

\* _applyFilter
ApplyFilter(data, filter) ==
    LET Keep(item) ==
            IF filter.operator = "and"
            THEN \A i \in 1..Len(filter.conditions) :
                     EvaluateCondition(item, filter.conditions[i])
            ELSE IF filter.operator = "or"
            THEN \E i \in 1..Len(filter.conditions) :
                     EvaluateCondition(item, filter.conditions[i])
            ELSE TRUE
    IN  SelectSeq(data, Keep)

\* the comparator of _applySort
Compare(a, b, sort) ==
    LET column == sort.column
        both == column \in DOMAIN a /\ column \in DOMAIN b
    IN  IF both /\ Less(a[column], b[column], column)
        THEN (IF sort.direction = "asc" THEN -1 ELSE 1)
        ELSE IF both /\ Less(b[column], a[column], column)
        THEN (IF sort.direction = "asc" THEN 1 ELSE -1)
        ELSE 0

\* _applySort: [...data].sort(comparator), a stable sort
RECURSIVE ApplySort(_, _)
ApplySort(data, sort) ==
    IF Len(data) = 0 THEN <<>>
    ELSE LET sorted == ApplySort(SubSeq(data, 1, Len(data) - 1), sort)
             item == data[Len(data)]
             after == {i \in 1..Len(sorted) : Compare(sorted[i], item, sort) > 0}
             place == IF after = {} THEN Len(sorted) + 1
                      ELSE CHOOSE i \in after : \A j \in after : i <= j
         IN  SubSeq(sorted, 1, place - 1) \o <<item>>
                 \o SubSeq(sorted, place, Len(sorted))

\* index.data.get(condition.value): the keys of the map are the strings
\* _buildIndexKey joined, so a number finds nothing and a string finds the
\* bucket whose joined key spells it
RECURSIVE JoinKey(_, _, _)
JoinKey(key, columns, i) ==
    IF i > Len(key) THEN <<>>
    ELSE (IF i > 1 THEN <<":", ":">> ELSE <<>>)
             \o (IF columns[i] \in NumberColumns THEN Digits(key[i])
                 ELSE Letters(key[i]))
             \o JoinKey(key, columns, i + 1)

IndexGet(index, condition) ==
    LET keys == IF condition.column \in NumberColumns THEN {}
                ELSE {key \in DOMAIN index.data :
                          JoinKey(key, index.columns, 1) = Letters(condition.value)}
    IN  IF keys = {} THEN <<>> ELSE index.data[CHOOSE key \in keys : TRUE]

\* _getDataWithIndex from the i-th index on: the rows an index gives, if an
\* index of the table covers a column of an == condition
RECURSIVE GetDataWithIndex(_, _, _, _, _)
GetDataWithIndex(idxs, i, tableName, filter, allData) ==
    IF filter.operator = "none" \/ i > Len(idxs)
    THEN [found |-> FALSE, rows |-> <<>>]
    ELSE LET index == idxs[i]
             usable == {n \in 1..Len(filter.conditions) :
                           /\ filter.conditions[n].operator = "=="
                           /\ \E c \in 1..Len(index.columns) :
                                  index.columns[c] = filter.conditions[n].column}
         IN  IF index.tableName = tableName /\ usable # {}
             THEN LET condition ==
                          filter.conditions[CHOOSE n \in usable :
                                                \A m \in usable : n <= m]
                      ids == IndexGet(index, condition)
                      Listed(item) == \E n \in 1..Len(ids) : ids[n] = item.id
                  IN  [found |-> TRUE, rows |-> SelectSeq(allData, Listed)]
             ELSE GetDataWithIndex(idxs, i + 1, tableName, filter, allData)

\* data.slice(start, end)
Slice(data, start, end) ==
    LET last == IF end = Absent \/ end > Len(data) THEN Len(data) ELSE end
    IN  IF start >= last THEN <<>> ELSE SubSeq(data, start + 1, last)

\* queryData on the rows read from the table file: index lookup or scan,
\* then filter, sort and pagination
QueryData(idxs, allData, tableName, query) ==
    LET indexed == GetDataWithIndex(idxs, 1, tableName, query.filter, allData)
        found == IF indexed.found THEN indexed.rows ELSE allData
        filtered == IF query.filter.operator # "none"
                    THEN ApplyFilter(found, query.filter) ELSE found
        sorted == IF query.sort # NoSort THEN ApplySort(filtered, query.sort)
                  ELSE filtered
        limit == query.limit
        offset == query.offset
        start == IF offset \in {Absent, 0} THEN 0 ELSE offset
        end == IF limit \in {Absent, 0} THEN Absent ELSE start + limit
    IN  IF limit \notin {Absent, 0} \/ offset \notin {Absent, 0}
        THEN Slice(sorted, start, end) ELSE sorted

\* ------------------------------------------------------- schema validation
\* The schemas tables are created with.  S lists its required column under
\* properties; R also requires a column that properties does not list.
\* Neither lists id, so createTable adds no id_idx.
SchemaDefinition(schema) ==
    CASE schema = "S" ->
             [type |-> "object",
              properties |-> <<[key |-> "email", type |-> "string"]>>,
              required |-> {"email"}]
      [] schema = "R" ->
             [type |-> "object",
              properties |-> <<[key |-> "email", type |-> "string"]>>,
              required |-> {"email", "name"}]
      [] schema = "T" ->
             [type |-> "object",
              properties |-> <<[key |-> "tags", type |-> "array"]>>,
              required |-> {}]

\* "Missing required property: <key>"
MissingProperty(key) ==
    CASE key = "email" -> "Missing required property: email"
      [] key = "name" -> "Missing required property: name"
      [] key = "id" -> "Missing required property: id"

\* typeof data[key]
TypeOf(key) == IF key \in NumberColumns THEN "number" ELSE "string"

\* the values of the column tags, by their JSON text: an array and an object
ArrayValue == "[]"
ObjectValue == "{}"

\* typeof data[key], the column tags included
TypeOfValue(data, key) == IF key = "tags" THEN "object" ELSE TypeOf(key)

\* Array.isArray(data[key])
IsArray(data, key) == key = "tags" /\ data[key] = ArrayValue

\* schema.type when the type test is reached: a schema of type 'array' that
\* meets an array has been set to 'object'
TypeTested(propSchema, data) ==
    IF propSchema.type = "array" /\ IsArray(data, propSchema.key)
    THEN "object" ELSE propSchema.type

\* _validateDataAgainstSchema of an object: the loop over schema.properties
\* from the i-th entry on
RECURSIVE ValidateProperties(_, _, _)
ValidateProperties(data, schema, i) ==
    IF i > Len(schema.properties) THEN "none"
    ELSE LET key == schema.properties[i].key IN
         IF key \in schema.required /\ key \notin DOMAIN data
         THEN MissingProperty(key)
         ELSE IF /\ key \in DOMAIN data
                 /\ TypeOfValue(data, key) # TypeTested(schema.properties[i], data)
         THEN "Type mismatch"
         ELSE ValidateProperties(data, schema, i + 1)

\* the keys whose property schema _validateDataAgainstSchema sets to 'object'
\* on its way through schema.properties from the i-th entry on
RECURSIVE RetypedBy(_, _, _)
RetypedBy(data, schema, i) ==
    IF i > Len(schema.properties) THEN {}
    ELSE LET propSchema == schema.properties[i]
             key == propSchema.key
         IN  IF key \in schema.required /\ key \notin DOMAIN data THEN {}
             ELSE IF key \notin DOMAIN data THEN RetypedBy(data, schema, i + 1)
             ELSE (IF propSchema.type = "array" /\ IsArray(data, key)
                   THEN {key} ELSE {})
                  \cup (IF TypeOfValue(data, key) # TypeTested(propSchema, data)
                        THEN {} ELSE RetypedBy(data, schema, i + 1))

\* the schema object this.schemas holds for the table: the one createTable
\* was given, with the types set since
StoredSchema(tableSchemas, tableName) ==
    LET declared == SchemaDefinition(tableSchemas[tableName]) IN
    [declared EXCEPT !.properties =
        [i \in 1..Len(declared.properties) |->
             IF [tableName |-> tableName, key |-> declared.properties[i].key]
                    \in retyped
             THEN [declared.properties[i] EXCEPT !.type = "object"]
             ELSE declared.properties[i]]]

\* _validateSchema: no schema in this.schemas, no validation
ValidateSchema(tableSchemas, tableName, data) ==
    IF tableSchemas[tableName] = NoSchema THEN "none"
    ELSE ValidateProperties(data, StoredSchema(tableSchemas, tableName), 1)

\* the property schemas a _validateSchema call sets to 'object'
ValidateSchemaRetypes(tableSchemas, tableName, data) ==
    IF tableSchemas[tableName] = NoSchema THEN {}
    ELSE {[tableName |-> tableName, key |-> key] :
              key \in RetypedBy(data, StoredSchema(tableSchemas, tableName), 1)}

\* ------------------------------------------------------------ legacy slimDB
\* The store of src/slimDB.js, reduced to its transactions map.  Transaction
\* ids (random hex strings in the code) are numbered in the order of their
\* generation; an operation is its type; what the operations do to the table
\* files is left out.
LegacyIds == 1..MaxLegacyId
LegacyTypes == {"add", "update", "delete", "read", "query", "write"}

InitSlimDB == [transactions |-> {},
               operations |-> [x \in LegacyIds |-> <<>>],
               nextId |-> 1,
               executed |-> <<>>]

\* startTransaction
LegacyStart(S) ==
    [S EXCEPT !.transactions = @ \cup {S.nextId},
              !.operations[S.nextId] = <<>>,
              !.nextId = @ + 1]

\* transaction.operations.push({type, ...})
LegacyPush(S, transactionId, type) ==
    [S EXCEPT !.operations[transactionId] = Append(@, type)]

\* the loop of commitTransaction comes to an operation of the transaction
LegacyRun(S, transactionId, type) ==
    [S EXCEPT !.executed = Append(@, <<transactionId, type>>)]

\* readData(tableName, query) without a transaction id: a transaction is
\* started, a read is pushed, and commitTransaction returns from inside its
\* loop ("case 'read': return await this._readData(...)")
LegacyReadData(S) ==
    LegacyRun(LegacyPush(LegacyStart(S), S.nextId, "read"), S.nextId, "read")

\* deleteData(tableName, query) without a transaction id: a transaction is
\* started, the table is read through readData, and either nothing matches
\* and the transaction is rolled back, or a write is pushed and committed
LegacyDeleteData(S, found) ==
    LET transactionId == S.nextId
        read == LegacyReadData(LegacyStart(S))
    IN  IF ~found
        THEN [S |-> [read EXCEPT !.transactions = @ \ {transactionId}],
              error |-> "Nothing found to delete"]
        ELSE [S |-> [LegacyRun(LegacyPush(read, transactionId, "write"),
                               transactionId, "write")
                         EXCEPT !.transactions = @ \ {transactionId}],
              error |-> "none"]

\* a commitTransaction that skips read operations
RECURSIVE MutLegacySkipsRead(_, _, _, _)
MutLegacySkipsRead(S, transactionId, i, found) ==
    IF i > Len(S.operations[transactionId])
    THEN [S |-> [S EXCEPT !.transactions = @ \ {transactionId}], error |-> "none"]
    ELSE LET type == S.operations[transactionId][i] IN
         IF type = "read"
         THEN MutLegacySkipsRead(S, transactionId, i + 1, found)
         ELSE MutLegacySkipsRead(LegacyRun(S, transactionId, type),
                                 transactionId, i + 1, found)

\* commitTransaction from the i-th operation on: _addData, _updateData and
\* queryData read the table through readData; 'delete' calls deleteData;
\* 'read' returns; after the loop the transaction is deleted from the map
RECURSIVE LegacyCommitFrom(_, _, _, _)
LegacyCommitFrom(S, transactionId, i, found) ==
    IF i > Len(S.operations[transactionId])
    THEN [S |-> [S EXCEPT !.transactions = @ \ {transactionId}], error |-> "none"]
    ELSE LET type == S.operations[transactionId][i]
             ran == LegacyRun(S, transactionId, type)
         IN  CASE type = "read" -> [S |-> ran, error |-> "none"]
               [] type \in {"add", "update", "query"} ->
                      LegacyCommitFrom(LegacyReadData(ran), transactionId, i + 1,
                                       found)
               [] type = "delete" ->
                      LET deleted == LegacyDeleteData(ran, found) IN
                      IF deleted.error # "none" THEN deleted
                      ELSE LegacyCommitFrom(deleted.S, transactionId, i + 1, found)
               [] OTHER -> LegacyCommitFrom(ran, transactionId, i + 1, found)

\* ------------------------------------------------------------ operations
NoRow == [id |-> 0, email |-> ""]
NoCall == [kind |-> "none", tableName |-> "A", data |-> NoRow,
           filter |-> <<>>, patch |-> <<>>, hasTransaction |-> FALSE]
NoTables == [t \in Tables |-> <<>>]
NoRead == [tableName |-> "", error |-> "none", rows |-> <<>>, call |-> "none",
           query |-> NoQuery]
IdleCommit == [pc |-> "idle", i |-> 0, rows |-> <<>>, before |-> NoTables]

\* constructor: the maps are empty, the directory holds the given table files
InitBuffer(opts, tableFiles, tableRows, buffer) ==
    /\ now = 0
    /\ listeners = {}
    /\ schemas = [t \in Tables |-> NoSchema]
    /\ retyped = {}
    /\ saltFile = InitializeWALEncryption(opts, MasterKey, FALSE).saltFile
    /\ walSalt = InitializeWALEncryption(opts, MasterKey, FALSE).walSalt
    /\ walKey = InitializeWALEncryption(opts, MasterKey, FALSE).walKey
    /\ closeCalls = 0
    /\ indexFiles = {}
    /\ walPadding = buffer
    /\ slimDB = InitSlimDB
    /\ flushing = <<>>
    /\ options = opts
    /\ phase = "ready"
    /\ tables = tableRows
    /\ indexes = <<>>
    /\ locks = [t \in Tables |-> NoTx]
    /\ lockQueue = [t \in Tables |-> <<>>]
    /\ transactions = {}
    /\ txOps = [x \in TxIds |-> <<>>]
    /\ txLocks = [x \in TxIds |-> {}]
    /\ nextTx = 1
    /\ calls = [x \in TxIds |-> NoCall]
    /\ callStatus = [x \in TxIds |-> "none"]
    /\ callResult = [x \in TxIds |-> "none"]
    /\ commits = [x \in TxIds |-> IdleCommit]
    /\ commitResult = [x \in TxIds |-> {}]
    /\ walSequence = 0
    /\ walBuffer = <<>>
    /\ walDisk = <<>>
    /\ crashes = 0
    /\ lastIntent = tableRows
    /\ encryptionKey = MasterKey
    /\ files = tableFiles
    /\ readResult = NoRead
    /\ lastWALRecoveryFailures = <<>>

\* the same with no buffer on its way through the padding
InitStore(opts, tableFiles, tableRows) ==
    InitBuffer(opts, tableFiles, tableRows, NoPadding)

\* the engine on a directory whose tables have no rows
InitDirectory(opts, tableFiles) == InitStore(opts, tableFiles, NoTables)

\* the engine on a directory that holds the (empty) tables
InitWith(opts) ==
    InitDirectory(opts, [t \in Tables |-> CreatedFile(NoSchema, MasterKey)])

\* the engine on a new directory
InitEmpty(opts) == InitDirectory(opts, [t \in Tables |-> NoFile])

DefaultOptions == [encrypt |-> TRUE, walEnabled |-> TRUE, syncWrites |-> TRUE,
                   walPaddingSize |-> MaxBlockSize,
                   lockTimeout |-> LockTimeoutTicks]

\* startTransaction
StartTransaction(maxTx, maxActive) ==
    /\ phase = "ready"
    /\ nextTx <= maxTx
    /\ Cardinality(transactions) < maxActive
    /\ transactions' = transactions \cup {nextTx}
    /\ txOps' = [txOps EXCEPT ![nextTx] = <<>>]
    /\ txLocks' = [txLocks EXCEPT ![nextTx] = {}]
    /\ nextTx' = nextTx + 1
    /\ UNCHANGED <<now, options, listeners, schemas, retyped, closeVars, phase, tables, indexes, locks, lockQueue,
                   callStatus, calls, callResult, commits, commitResult,
                   walVars, crashes, lastIntent,
                   fileVars>>

\* addData / updateData / deleteData with a transaction id, up to
\* "await this._acquireLock(tableName, transactionId)"
BeginCall(transactionId, call) ==
    /\ phase = "ready"
    /\ transactionId < nextTx
    /\ callStatus[transactionId] = "none"
    /\ Len(txOps[transactionId]) < MaxOps
    /\ LET invalid == CASE call.kind = "add" ->
                                ValidateSchema(schemas, call.tableName, call.data)
                         [] call.kind = "update" ->
                                ValidateSchema(schemas, call.tableName, call.patch)
                         [] OTHER -> "none"
       IN  IF invalid # "none"
           THEN /\ callResult' = [callResult EXCEPT ![transactionId] = invalid]
                /\ UNCHANGED <<calls, lockVars>>
           ELSE /\ calls' = [calls EXCEPT ![transactionId] =
                                 [call EXCEPT !.hasTransaction =
                                                  transactionId \in transactions]]
                /\ SetLockState(AcquireLock(LockState, call.tableName,
                                            transactionId))
                /\ UNCHANGED callResult
    /\ retyped' = retyped \cup
           CASE call.kind = "add" ->
                    ValidateSchemaRetypes(schemas, call.tableName, call.data)
             [] call.kind = "update" ->
                    ValidateSchemaRetypes(schemas, call.tableName, call.patch)
             [] OTHER -> {}
    /\ UNCHANGED <<now, options, listeners, schemas, closeVars, phase, tables, indexes, transactions,
                   txOps, nextTx, commits, commitResult, walVars,
                   crashes, lastIntent,
                   fileVars>>

AddDataCall(transactionId, tableName, data) ==
    BeginCall(transactionId,
              [NoCall EXCEPT !.kind = "add", !.tableName = tableName, !.data = data])

UpdateDataCall(transactionId, tableName, filter, patch) ==
    BeginCall(transactionId,
              [NoCall EXCEPT !.kind = "update", !.tableName = tableName,
                             !.filter = filter, !.patch = patch])

DeleteDataCall(transactionId, tableName, filter) ==
    BeginCall(transactionId,
              [NoCall EXCEPT !.kind = "delete", !.tableName = tableName,
                             !.filter = filter])

\* this.eventEmitter.emit(event, ...) as the last statement before "return":
\* a listener that throws makes emit throw, and the error takes the place of
\* the value returned
Emit(event, result) == IF event \in listeners THEN "ListenerError" ELSE result

\* on(event, listener) with a listener that throws
On(event) ==
    /\ phase = "ready"
    /\ event \notin listeners
    /\ listeners' = listeners \cup {event}
    /\ UNCHANGED <<now, options, schemas, retyped, closeVars, phase, tables, indexes, lockVars, txVars,
                   walVars, crashes, lastIntent, fileVars>>

\* the call's end: its promise settles
EndCall(transactionId, result) ==
    /\ calls' = [calls EXCEPT ![transactionId] = NoCall]
    /\ callStatus' = [callStatus EXCEPT ![transactionId] = "none"]
    /\ callResult' = [callResult EXCEPT ![transactionId] = result]

\* _acquireLock rejected: the call fails with "Lock timeout for table ..."
CallRejected(transactionId) ==
    /\ phase = "ready"
    /\ callStatus[transactionId] = "rejected"
    /\ EndCall(transactionId, "LockTimeout")
    /\ UNCHANGED <<now, options, listeners, schemas, retyped, closeVars, phase, tables, indexes, locks, lockQueue,
                   txLocks, transactions, txOps, nextTx, commits, commitResult,
                   walVars, crashes, lastIntent,
                   fileVars>>

AddOp(call) == [type |-> "add", tableName |-> call.tableName, data |-> call.data,
                newData |-> call.data, id |-> call.data.id]

\* addData after the lock was granted: the operation is buffered, then the
\* indexes are updated (which may throw)
ResumeAdd(transactionId) ==
    LET call == calls[transactionId]
        r == UpdateIndexesForAdd(indexes, call.tableName, call.data)
    IN  /\ phase = "ready"
        /\ callStatus[transactionId] = "granted"
        /\ call.kind = "add"
        /\ IF ~call.hasTransaction
           THEN /\ EndCall(transactionId, "TypeError")
                /\ UNCHANGED <<txOps, indexes>>
           ELSE /\ txOps' = [txOps EXCEPT ![transactionId] = Append(@, AddOp(call))]
                /\ indexes' = r.indexes
                /\ EndCall(transactionId,
                           IF r.error = "none" THEN Emit("add", "ok") ELSE r.error)
        /\ UNCHANGED <<now, options, listeners, schemas, retyped, closeVars, phase, tables, locks, lockQueue, txLocks,
                       transactions, nextTx, commits, commitResult, walVars,
                       crashes, lastIntent,
                   fileVars>>

\* the loop of updateData over the matching records
RECURSIVE UpdateLoop(_, _, _, _, _)
UpdateLoop(ops, idxs, records, tableName, patch) ==
    IF Len(records) = 0 THEN [ops |-> ops, indexes |-> idxs, error |-> "none"]
    ELSE LET record == Head(records)
             updatedRecord == Merge(record, patch)
             pushed == Append(ops, [type |-> "update", tableName |-> tableName,
                                    data |-> record, newData |-> updatedRecord,
                                    id |-> record.id])
             r == UpdateIndexesForUpdate(idxs, tableName, record, updatedRecord)
         IN  IF r.error # "none"
             THEN [ops |-> pushed, indexes |-> r.indexes, error |-> r.error]
             ELSE UpdateLoop(pushed, r.indexes, Tail(records), tableName, patch)

\* updateData after the lock was granted
ResumeUpdate(transactionId) ==
    LET call == calls[transactionId]
        existingData == ReadData(call.tableName)
        recordsToUpdate == FilterRows(existingData.rows, call.filter)
        r == UpdateLoop(txOps[transactionId], indexes, recordsToUpdate,
                        call.tableName, call.patch)
    IN  /\ phase = "ready"
        /\ callStatus[transactionId] = "granted"
        /\ call.kind = "update"
        /\ IF existingData.error # "none"
           THEN /\ EndCall(transactionId, existingData.error)
                /\ UNCHANGED <<txOps, indexes>>
           ELSE IF ~call.hasTransaction /\ Len(recordsToUpdate) > 0
           THEN /\ EndCall(transactionId, "TypeError")
                /\ UNCHANGED <<txOps, indexes>>
           ELSE /\ txOps' = [txOps EXCEPT ![transactionId] = r.ops]
                /\ indexes' = r.indexes
                /\ EndCall(transactionId,
                           IF r.error = "none" THEN Emit("update", "ok") ELSE r.error)
        /\ UNCHANGED <<now, options, listeners, schemas, retyped, closeVars, phase, tables, locks, lockQueue, txLocks,
                       transactions, nextTx, commits, commitResult, walVars,
                       crashes, lastIntent,
                   fileVars>>

\* the loop of deleteData over the matching records
RECURSIVE DeleteLoop(_, _, _, _)
DeleteLoop(ops, idxs, records, tableName) ==
    IF Len(records) = 0 THEN [ops |-> ops, indexes |-> idxs]
    ELSE LET record == Head(records) IN
         DeleteLoop(Append(ops, [type |-> "delete", tableName |-> tableName,
                                 data |-> record, newData |-> record,
                                 id |-> record.id]),
                    UpdateIndexesForDelete(idxs, tableName, record),
                    Tail(records), tableName)

\* deleteData after the lock was granted
ResumeDelete(transactionId) ==
    LET call == calls[transactionId]
        existingData == ReadData(call.tableName)
        recordsToDelete == FilterRows(existingData.rows, call.filter)
        r == DeleteLoop(txOps[transactionId], indexes, recordsToDelete,
                        call.tableName)
    IN  /\ phase = "ready"
        /\ callStatus[transactionId] = "granted"
        /\ call.kind = "delete"
        /\ IF existingData.error # "none"
           THEN /\ EndCall(transactionId, existingData.error)
                /\ UNCHANGED <<txOps, indexes>>
           ELSE IF ~call.hasTransaction /\ Len(recordsToDelete) > 0
           THEN /\ EndCall(transactionId, "TypeError")
                /\ UNCHANGED <<txOps, indexes>>
           ELSE /\ txOps' = [txOps EXCEPT ![transactionId] = r.ops]
                /\ indexes' = r.indexes
                /\ EndCall(transactionId, Emit("delete", "ok"))
        /\ UNCHANGED <<now, options, listeners, schemas, retyped, closeVars, phase, tables, locks, lockQueue, txLocks,
                       transactions, nextTx, commits, commitResult, walVars,
                       crashes, lastIntent,
                   fileVars>>

\* rollbackTransaction: the locks are released and the transaction is dropped;
\* neither the tables nor the indexes are touched
RollbackTransaction(transactionId) ==
    /\ phase = "ready"
    /\ transactionId \in transactions
    /\ SetLockState(ReleaseLocks(LockState, txLocks[transactionId], transactionId))
    /\ transactions' = transactions \ {transactionId}
    /\ UNCHANGED <<now, options, listeners, schemas, retyped, closeVars, phase, tables, indexes, txOps, nextTx, calls,
                   callResult, commits, commitResult, walVars, crashes, lastIntent,
                   fileVars>>

\* the tables the buffered operations of a transaction name
TouchedTables(transactionId) ==
    {txOps[transactionId][i].tableName : i \in 1..Len(txOps[transactionId])}

\* the successful end of commitTransaction: locks released, transaction dropped
CommitEnd(transactionId) ==
    /\ SetLockState(ReleaseLocks(LockState, txLocks[transactionId], transactionId))
    /\ transactions' = transactions \ {transactionId}
    /\ commits' = [commits EXCEPT ![transactionId] = IdleCommit]
    /\ commitResult' = [commitResult EXCEPT ![transactionId] =
                            @ \cup {Emit("commitTransaction", "ok")}]

\* commitTransaction up to the first "await this._applyOperation(operation)"
CommitStart(transactionId) ==
    /\ phase = "ready"
    /\ transactionId < nextTx
    /\ commits[transactionId].pc = "idle"
    /\ IF transactionId \notin transactions
       THEN /\ commitResult' = [commitResult EXCEPT ![transactionId] =
                                    @ \cup {"TransactionNotFound"}]
            /\ UNCHANGED <<lockVars, transactions, commits>>
       ELSE IF Len(txOps[transactionId]) = 0
       THEN CommitEnd(transactionId)
       ELSE /\ commits' = [commits EXCEPT ![transactionId] =
                               [pc |-> "apply", i |-> 1, rows |-> <<>>,
                                before |-> tables]]
            /\ UNCHANGED <<lockVars, transactions, commitResult>>
    /\ UNCHANGED <<now, options, listeners, schemas, retyped, closeVars, phase, tables, indexes, txOps, nextTx, calls,
                   callResult, walVars, crashes, lastIntent,
                   fileVars>>

\* _applyOperation up to "await this._writeDataDirect": the table is read, the
\* new rows are computed and their write intent is logged.  An error is caught
\* by commitTransaction, which calls rollbackTransaction and rethrows.
CommitApply(transactionId) ==
    LET c == commits[transactionId]
        operation == txOps[transactionId][c.i]
        existingData == ReadData(operation.tableName)
        r == IF existingData.error # "none"
             THEN [rows |-> <<>>, error |-> existingData.error]
             ELSE ApplyOperationRows(existingData.rows, operation)
    IN  /\ phase = "ready"
        /\ c.pc = "apply"
        /\ IF r.error # "none"
           THEN /\ IF transactionId \in transactions
                   THEN /\ SetLockState(ReleaseLocks(LockState,
                                            txLocks[transactionId], transactionId))
                        /\ transactions' = transactions \ {transactionId}
                   ELSE UNCHANGED <<lockVars, transactions>>
                /\ commits' = [commits EXCEPT ![transactionId] = IdleCommit]
                /\ commitResult' = [commitResult EXCEPT ![transactionId] =
                       @ \cup {IF transactionId \in transactions
                               THEN Emit("rollbackTransaction", r.error)
                               ELSE r.error}]
                /\ UNCHANGED <<walVars, lastIntent>>
           ELSE /\ SetWalState(WriteWAL(WalState,
                       [type |-> "write", tableName |-> operation.tableName,
                        data |-> r.rows]))
                /\ commits' = [commits EXCEPT ![transactionId].pc = "write",
                                              ![transactionId].rows = r.rows]
                /\ lastIntent' = IF options.walEnabled
                                 THEN [lastIntent EXCEPT
                                           ![operation.tableName] = r.rows]
                                 ELSE lastIntent
                /\ UNCHANGED <<lockVars, transactions, commitResult>>
        /\ UNCHANGED <<now, options, listeners, schemas, retyped, closeVars, phase, tables, indexes, txOps, nextTx,
                       calls, callResult, crashes, fileVars>>

\* _writeDataDirect of the operation, then the next operation or, after the
\* last one, the end of commitTransaction
CommitWrite(transactionId) ==
    LET c == commits[transactionId]
        operation == txOps[transactionId][c.i]
    IN  /\ phase = "ready"
        /\ c.pc = "write"
        /\ tables' = [tables EXCEPT ![operation.tableName] = c.rows]
        /\ files' = [files EXCEPT ![operation.tableName] = WrittenFile(encryptionKey)]
        /\ IF c.i < Len(txOps[transactionId])
           THEN /\ commits' = [commits EXCEPT ![transactionId].pc = "apply",
                                              ![transactionId].i = c.i + 1,
                                              ![transactionId].rows = <<>>]
                /\ UNCHANGED <<lockVars, transactions, commitResult, lastIntent>>
           ELSE /\ CommitEnd(transactionId)
                /\ UNCHANGED lastIntent
        /\ UNCHANGED <<now, options, listeners, schemas, retyped, closeVars, phase, indexes, txOps, nextTx, calls,
                       callResult, walVars, crashes, encryptionKey, readResult,
                       lastWALRecoveryFailures>>

\* _saveIndex: the index of that name is written to indexes/<name>.idx
SaveIndex(saved, idxs, indexName) ==
    {f \in saved : f.name # indexName}
        \cup {idxs[i] : i \in {j \in 1..Len(idxs) : idxs[j].name = indexName}}

\* createIndex
CreateIndex(tableName, indexName, columns, isUnique) ==
    LET data == ReadData(tableName)
        built == BuildIndexData(data.rows, columns, isUnique, EmptyMap)
    IN  /\ phase = "ready"
        /\ data.error = "none"
        /\ built.error = "none"
        /\ indexes' = SetIndex(indexes, [name |-> indexName, tableName |-> tableName,
                                         columns |-> columns, unique |-> isUnique,
                                         data |-> built.data])
        /\ indexFiles' = SaveIndex(indexFiles, indexes', indexName)
        /\ UNCHANGED <<now, options, listeners, schemas, retyped, saltFile, walSalt, walKey,
                       closeCalls, walPadding, slimDB, phase, tables, lockVars, txVars, walVars,
                       crashes, lastIntent,
                   fileVars>>

\* the clock
Tick ==
    /\ now < MaxTime
    /\ now' = now + 1
    /\ UNCHANGED <<options, listeners, schemas, retyped, closeVars, phase, tables, indexes, lockVars, txVars, walVars,
                   crashes, lastIntent,
                   fileVars>>

\* _checkpoint, run by the scheduler: the WAL buffer is flushed
Checkpoint ==
    /\ phase = "ready"
    /\ Len(walBuffer) > 0
    /\ SetWalState(FlushWAL(WalState))
    /\ UNCHANGED <<now, options, listeners, schemas, retyped, closeVars, phase, tables, indexes, lockVars, txVars,
                   crashes, lastIntent,
                   fileVars>>

\* _writeWAL from the push on: the entry is numbered and pushed and, with
\* syncWrites on, _flushWAL is entered, which encrypts the entries the buffer
\* holds now and awaits fs.mkdir and fs.writeFile
WriteWALCall(operation) ==
    LET walEntry == [sequence |-> walSequence + 1,
                     timestamp |-> now,
                     operation |-> operation,
                     checksum |-> Checksum(operation)]
    IN  /\ phase = "ready"
        /\ options.walEnabled
        /\ walSequence < MaxFlushSeq
        /\ walSequence' = walSequence + 1
        /\ walBuffer' = Append(walBuffer, walEntry)
        /\ flushing' = IF options.syncWrites
                       THEN Append(flushing, [entries |-> walBuffer',
                                              by |-> "_writeWAL",
                                              pc |-> "writeFile"])
                       ELSE flushing
        /\ UNCHANGED <<now, options, listeners, schemas, retyped, closeVars, phase, tables,
                       indexes, lockVars, txVars, walDisk, crashes, lastIntent,
                       fileVars>>

\* this.isCheckpointing
IsCheckpointing == \E i \in 1..Len(flushing) : flushing[i].by = "_checkpoint"

\* _checkpoint up to the awaits of its _flushWAL, with entries in the buffer
CheckpointStart ==
    /\ phase = "ready"
    /\ ~IsCheckpointing
    /\ Len(walBuffer) > 0
    /\ flushing' = Append(flushing, [entries |-> walBuffer, by |-> "_checkpoint",
                                     pc |-> "writeFile"])
    /\ UNCHANGED <<now, options, listeners, schemas, retyped, closeVars, phase, tables,
                   indexes, lockVars, txVars, walSequence, walBuffer, walDisk,
                   crashes, lastIntent, fileVars>>

\* flushing without its i-th call
WithoutCall(i) == SubSeq(flushing, 1, i - 1) \o SubSeq(flushing, i + 1, Len(flushing))

\* _flushWAL once fs.writeFile has returned: the lines encrypted on entry are
\* in a segment; "this.walBuffer = []"
FlushWALEnd(i) ==
    /\ i \in 1..Len(flushing)
    /\ flushing[i].pc = "writeFile"
    /\ walDisk' = walDisk \o [n \in 1..Len(flushing[i].entries) |->
                                  EncryptWALData(encryptionKey,
                                                 flushing[i].entries[n])]
    /\ walBuffer' = <<>>
    /\ flushing' = IF flushing[i].by = "_checkpoint"
                   THEN [flushing EXCEPT ![i].pc = "cleanup"]
                   ELSE WithoutCall(i)
    /\ UNCHANGED <<now, options, listeners, schemas, retyped, closeVars, phase, tables,
                   indexes, lockVars, txVars, walSequence, crashes, lastIntent,
                   fileVars>>

\* _checkpoint after its clean-up of old segments: "this.isCheckpointing = false"
CheckpointEnd(i) ==
    /\ i \in 1..Len(flushing)
    /\ flushing[i].pc = "cleanup"
    /\ flushing' = WithoutCall(i)
    /\ UNCHANGED <<now, options, listeners, schemas, retyped, closeVars, phase, tables,
                   indexes, lockVars, txVars, walSequence, walBuffer, walDisk,
                   crashes, lastIntent, fileVars>>

\* _applyWALPaddingBuffer(plaintextBuffer) with the bytes crypto.randomBytes
\* returns
ApplyPadding(padding) ==
    /\ walPadding.pc = "plain"
    /\ walPadding' = [walPadding EXCEPT
                          !.pc = "padded",
                          !.padded = ApplyWALPaddingBuffer(walPadding.plaintext,
                                                           padding)]
    /\ UNCHANGED <<now, options, listeners, schemas, retyped, saltFile, walSalt,
                   walKey, closeCalls, indexFiles, slimDB, phase, tables, indexes,
                   lockVars, txVars, walVars, crashes, lastIntent, fileVars>>

\* a padded buffer whose last four bytes give another length, as a caller of
\* _removeWALPaddingBuffer may pass it
RewriteTrailer(n) ==
    /\ walPadding.pc = "padded"
    /\ ~walPadding.rewritten
    /\ walPadding' = [walPadding EXCEPT
                          !.rewritten = TRUE,
                          !.padded = SubSeq(@, 1, Len(@) - 4) \o UInt32BE(n)]
    /\ UNCHANGED <<now, options, listeners, schemas, retyped, saltFile, walSalt,
                   walKey, closeCalls, indexFiles, slimDB, phase, tables, indexes,
                   lockVars, txVars, walVars, crashes, lastIntent, fileVars>>

\* _removeWALPaddingBuffer(paddedBuffer)
RemovePadding ==
    /\ walPadding.pc = "padded"
    /\ walPadding' = [walPadding EXCEPT
                          !.pc = "removed",
                          !.removed = RemoveWALPaddingBuffer(walPadding.padded)]
    /\ UNCHANGED <<now, options, listeners, schemas, retyped, saltFile, walSalt,
                   walKey, closeCalls, indexFiles, slimDB, phase, tables, indexes,
                   lockVars, txVars, walVars, crashes, lastIntent, fileVars>>

\* what the actions of the legacy store leave alone
LegacyUnchanged ==
    UNCHANGED <<now, options, listeners, schemas, retyped, saltFile, walSalt,
                walKey, closeCalls, indexFiles, walPadding, phase, tables,
                indexes, lockVars, txVars, walVars, crashes, lastIntent,
                fileVars>>

\* slimDB.startTransaction() called by the user
LegacyStartTransaction ==
    /\ slimDB.nextId <= MaxLegacyTx
    /\ slimDB' = LegacyStart(slimDB)
    /\ LegacyUnchanged

\* the user pushes an operation on the transaction, as the test suite does
LegacyPushOperation(transactionId, type) ==
    /\ transactionId \in slimDB.transactions
    /\ transactionId <= MaxLegacyTx
    /\ Len(slimDB.operations[transactionId]) < MaxLegacyOps
    /\ slimDB' = LegacyPush(slimDB, transactionId, type)
    /\ LegacyUnchanged

\* slimDB.commitTransaction(transactionId); found says whether the deleteData
\* calls of the commit find rows to delete
LegacyCommitTransaction(transactionId, found) ==
    LET result == LegacyCommitFrom([slimDB EXCEPT !.executed = <<>>],
                                   transactionId, 1, found)
    IN  /\ transactionId \in slimDB.transactions
        /\ slimDB.nextId + 2 * MaxLegacyOps <= MaxLegacyId + 1
        /\ slimDB' = result.S
        /\ LegacyUnchanged

\* slimDB.readData(tableName, query) called without a transaction id
LegacyReadDataCall ==
    /\ slimDB.nextId <= MaxLegacyId
    /\ slimDB' = LegacyReadData([slimDB EXCEPT !.executed = <<>>])
    /\ LegacyUnchanged

\* new SlimCryptDB(databaseDir, key): the constructor's empty maps
FreshInstance ==
    /\ indexes' = <<>>
    /\ locks' = [t \in Tables |-> NoTx]
    /\ lockQueue' = [t \in Tables |-> <<>>]
    /\ transactions' = {}
    /\ txOps' = [x \in TxIds |-> <<>>]
    /\ txLocks' = [x \in TxIds |-> {}]
    /\ calls' = [x \in TxIds |-> NoCall]
    /\ callStatus' = [x \in TxIds |-> "none"]
    /\ callResult' = [x \in TxIds |-> "none"]
    /\ commits' = [x \in TxIds |-> IdleCommit]
    /\ commitResult' = [x \in TxIds |-> {}]
    /\ walSequence' = 0
    /\ walBuffer' = <<>>
    /\ flushing' = <<>>
    /\ listeners' = {}
    /\ schemas' = [t \in Tables |-> NoSchema]
    /\ retyped' = {}
    /\ closeCalls' = 0

\* the process dies: what is in memory is lost, the files stay
Crash ==
    /\ phase = "ready"
    /\ crashes < MaxCrash
    /\ crashes' = crashes + 1
    /\ phase' = "down"
    /\ FreshInstance
    /\ encryptionKey' = NoKey
    /\ walSalt' = NoKey
    /\ walKey' = NoWALKey
    /\ UNCHANGED <<now, options, saltFile, indexFiles, walPadding, slimDB, tables, nextTx, walDisk, lastIntent, files,
                   readResult, lastWALRecoveryFailures>>

\* the directory is opened with a key: _initializeDatabase derives the WAL key
\* and, with the WAL on, runs _recoverFromWAL before the engine is ready
Open(key) ==
    LET recovered == IF options.walEnabled
                     THEN RecoverFromWAL([tables |-> tables, files |-> files],
                                         <<>>, walDisk, key, 1)
                     ELSE [D |-> [tables |-> tables, files |-> files],
                           failures |-> <<>>]
    IN  /\ phase \in {"down", "closed"}
        /\ phase' = "ready"
        /\ FreshInstance
        /\ encryptionKey' = key
        /\ tables' = recovered.D.tables
        /\ files' = recovered.D.files
        /\ lastWALRecoveryFailures' = recovered.failures
        /\ readResult' = NoRead
        /\ saltFile' = InitializeWALEncryption(options, key, saltFile).saltFile
        /\ walSalt' = InitializeWALEncryption(options, key, saltFile).walSalt
        /\ walKey' = InitializeWALEncryption(options, key, saltFile).walKey
        /\ UNCHANGED <<now, options, indexFiles, walPadding, slimDB, nextTx, walDisk, crashes, lastIntent>>

\* the directory is opened again with the key it was created under
Reopen == Open(MasterKey)

\* new SlimCryptDB(databaseDir, key) returns: _initializeDatabase has been
\* started and not awaited
Construct(key) ==
    /\ phase \in {"down", "closed"}
    /\ phase' = "initializing"
    /\ FreshInstance
    /\ encryptionKey' = key
    /\ readResult' = NoRead
    /\ lastWALRecoveryFailures' = <<>>
    /\ walSalt' = NoKey
    /\ walKey' = NoWALKey
    /\ UNCHANGED <<now, options, saltFile, indexFiles, walPadding, slimDB, tables, nextTx, walDisk, crashes,
                   lastIntent, files>>

\* _initializeDatabase comes to its end: _recoverFromWAL has run (with the WAL
\* on) and isInitialized is set
FinishInitialization ==
    LET recovered == IF options.walEnabled
                     THEN RecoverFromWAL([tables |-> tables, files |-> files],
                                         <<>>, walDisk, encryptionKey, 1)
                     ELSE [D |-> [tables |-> tables, files |-> files],
                           failures |-> <<>>]
    IN  /\ phase = "initializing"
        /\ phase' = "ready"
        /\ tables' = recovered.D.tables
        /\ files' = recovered.D.files
        /\ lastWALRecoveryFailures' = recovered.failures
        /\ saltFile' = InitializeWALEncryption(options, encryptionKey,
                                               saltFile).saltFile
        /\ walSalt' = InitializeWALEncryption(options, encryptionKey,
                                              saltFile).walSalt
        /\ walKey' = InitializeWALEncryption(options, encryptionKey,
                                             saltFile).walKey
        /\ UNCHANGED <<now, options, listeners, schemas, retyped, closeCalls, indexFiles, walPadding, slimDB, indexes,
                       lockVars, txVars, walVars,
                       crashes, lastIntent, encryptionKey, readResult>>

\* tableExists
TableExists(tableName) == files[tableName].exists

\* createTable(tableName, schema): the create_table entry is logged, then the
\* file is written with {name, schema, rows: []}
CreateTable(tableName, schema) ==
    /\ phase = "ready"
    /\ ~TableExists(tableName)
    /\ SetWalState(WriteWAL(WalState, [type |-> "create_table",
                                       tableName |-> tableName,
                                       schema |-> schema]))
    /\ schemas' = IF schema # NoSchema THEN [schemas EXCEPT ![tableName] = schema]
                ELSE schemas
    /\ retyped' = IF schema # NoSchema
                  THEN {p \in retyped : p.tableName # tableName}
                  ELSE retyped
    /\ tables' = [tables EXCEPT ![tableName] = <<>>]
    /\ files' = [files EXCEPT ![tableName] = CreatedFile(schema, encryptionKey)]
    /\ lastIntent' = [lastIntent EXCEPT ![tableName] = <<>>]
    /\ UNCHANGED <<now, options, listeners, closeVars, phase, indexes, lockVars, txVars, crashes,
                   encryptionKey, readResult, lastWALRecoveryFailures>>

\* the indexes of the other tables
OtherIndexes(idxs, tableName) ==
    SelectSeq(idxs, LAMBDA index : index.tableName # tableName)

\* deleteTable(tableName): the delete_table entry is logged, the file is
\* unlinked and the indexes of the table are dropped
DeleteTable(tableName) ==
    /\ phase = "ready"
    /\ TableExists(tableName)
    /\ SetWalState(WriteWAL(WalState, [type |-> "delete_table",
                                       tableName |-> tableName]))
    /\ tables' = [tables EXCEPT ![tableName] = <<>>]
    /\ files' = [files EXCEPT ![tableName] = NoFile]
    /\ schemas' = [schemas EXCEPT ![tableName] = NoSchema]
    /\ retyped' = {p \in retyped : p.tableName # tableName}
    /\ indexes' = OtherIndexes(indexes, tableName)
    /\ lastIntent' = [lastIntent EXCEPT ![tableName] = <<>>]
    /\ UNCHANGED <<now, options, listeners, closeVars, phase, lockVars, txVars, crashes,
                   encryptionKey, readResult, lastWALRecoveryFailures>>

\* readData(tableName, {}) as a call of its own; it does not await
\* ensureInitialized
ReadDataCall(tableName) ==
    LET data == ReadData(tableName) IN
    /\ phase \in {"ready", "initializing"}
    /\ readResult' = [tableName |-> tableName, error |-> data.error,
                      rows |-> data.rows, call |-> "readData",
                      query |-> NoQuery]
    /\ UNCHANGED <<now, options, listeners, schemas, retyped, closeVars, phase, tables, indexes, lockVars, txVars,
                   walVars, crashes, lastIntent, encryptionKey, files,
                   lastWALRecoveryFailures>>

\* queryData(tableName, query)
QueryDataCall(tableName, query) ==
    LET data == ReadData(tableName) IN
    /\ phase \in {"ready", "initializing"}
    /\ readResult' = [tableName |-> tableName, error |-> data.error,
                      rows |-> IF data.error = "none"
                               THEN QueryData(indexes, data.rows, tableName, query)
                               ELSE <<>>,
                      call |-> "queryData", query |-> query]
    /\ UNCHANGED <<now, options, listeners, schemas, retyped, closeVars, phase, tables, indexes, lockVars, txVars,
                   walVars, crashes, lastIntent, encryptionKey, files,
                   lastWALRecoveryFailures>>

\* close() that leaves this.walKey in place
MutCloseKeepsWALKey ==
    /\ phase = "ready"
    /\ phase' = "closed"
    /\ locks' = [t \in Tables |-> NoTx]
    /\ lockQueue' = [t \in Tables |-> <<>>]
    /\ transactions' = {}
    /\ encryptionKey' = NoKey
    /\ walSalt' = NoKey
    /\ closeCalls' = closeCalls + 1
    /\ listeners' = {}
    /\ UNCHANGED <<now, options, schemas, retyped, saltFile, indexFiles, walPadding, slimDB, walKey, tables, indexes,
                   txLocks, callStatus, txOps, nextTx, calls, callResult,
                   commits, commitResult, walVars, crashes, lastIntent, files,
                   readResult, lastWALRecoveryFailures>>

\* close(): isClosed is set first, so that _flushWAL and _checkpoint return
\* at their first line; the lock and transaction maps are cleared and the
\* keys wiped
Close ==
    /\ phase = "ready"
    /\ phase' = "closed"
    /\ locks' = [t \in Tables |-> NoTx]
    /\ lockQueue' = [t \in Tables |-> <<>>]
    /\ transactions' = {}
    /\ encryptionKey' = NoKey
    /\ walKey' = NoWALKey
    /\ walSalt' = NoKey
    /\ closeCalls' = closeCalls + 1
    /\ listeners' = {}
    /\ UNCHANGED <<now, options, schemas, retyped, saltFile, indexFiles, walPadding, slimDB, tables, indexes, txLocks, callStatus, txOps,
                   nextTx, calls, callResult, commits, commitResult, walVars,
                   crashes, lastIntent, files, readResult,
                   lastWALRecoveryFailures>>

\* close() on an instance that is closed: "if (this.isClosed) return"
CloseAgain ==
    /\ phase = "closed"
    /\ closeCalls < MaxClose
    /\ closeCalls' = closeCalls + 1
    /\ UNCHANGED <<now, options, listeners, schemas, retyped, saltFile, indexFiles, walPadding, slimDB, walSalt, walKey,
                   phase, tables, indexes, lockVars, txVars, walVars, crashes,
                   lastIntent, fileVars>>

\* somebody with access to the directory rewrites the tag or the ciphertext
\* field of a table file
TamperFields == {"authTag", "ciphertext"}
Tamperings == {"recased", "changed"}

TamperFile(tableName, field, how) ==
    /\ TableExists(tableName)
    /\ files' = [files EXCEPT ![tableName] =
                     IF field = "authTag" THEN [@ EXCEPT !.authTag = how]
                     ELSE [@ EXCEPT !.ciphertext = how]]
    /\ UNCHANGED <<now, options, listeners, schemas, retyped, closeVars, phase, tables, indexes, lockVars, txVars,
                   walVars, crashes, lastIntent, encryptionKey, readResult,
                   lastWALRecoveryFailures>>

\* somebody with access to the directory rewrites the ciphertext field of a
\* line of a WAL segment
TamperWALLine(n) ==
    /\ walDisk[n].prefix = "WAL:"
    /\ walDisk' = [walDisk EXCEPT ![n].ciphertext = Edited(@, "changed")]
    /\ UNCHANGED <<now, options, listeners, schemas, retyped, closeVars, phase, tables, indexes, lockVars, txVars,
                   walSequence, walBuffer, flushing, crashes, lastIntent,
                   fileVars>>

\* somebody with access to the directory appends a line to a WAL segment
AppendWALLine(line) ==
    /\ walDisk' = Append(walDisk, line)
    /\ UNCHANGED <<now, options, listeners, schemas, retyped, closeVars, phase, tables, indexes, lockVars, txVars,
                   walSequence, walBuffer, flushing, crashes, lastIntent,
                   fileVars>>

\* ---------------------------------------------------------- specifications
\* The lock manager under its callers: transactions that add rows to two
\* tables and roll back or commit, with the clock running.
LockRow == Row(1, "a")

NextLock ==
    \/ StartTransaction(MaxTx, MaxTx)
    \/ \E x \in transactions, t \in Tables : AddDataCall(x, t, LockRow)
    \/ \E x \in TxIds : CallRejected(x)
    \/ \E x \in TxIds : ResumeAdd(x)
    \/ \E x \in TxIds : RollbackTransaction(x)
    \/ Tick

SpecLock == InitWith(DefaultOptions) /\ [][NextLock]_vars

\* The transaction manager over one table with an index on email: rows are
\* added, updated and deleted in transactions that commit or roll back.
Filters == {[id |-> i] : i \in 1..MaxId}
Patches == {[email |-> e] : e \in Emails}

\* The callers of these runs await every call: a transaction gets its next
\* call, its commit or its rollback when its last call has returned, and an
\* index is created while no transaction is open.
Idle == {x \in transactions : commits[x].pc = "idle" /\ callStatus[x] = "none"}

NoneOpen ==
    /\ transactions = {}
    /\ \A x \in TxIds : commits[x].pc = "idle" /\ callStatus[x] = "none"

NextData ==
    \/ StartTransaction(MaxDataTx, MaxActive)
    \/ \E x \in Idle, row \in Rows : AddDataCall(x, "A", row)
    \/ \E x \in Idle, f \in Filters, p \in Patches : UpdateDataCall(x, "A", f, p)
    \/ \E x \in Idle, f \in Filters : DeleteDataCall(x, "A", f)
    \/ \E x \in TxIds : ResumeAdd(x)
    \/ \E x \in TxIds : ResumeUpdate(x)
    \/ \E x \in TxIds : ResumeDelete(x)
    \/ \E x \in Idle : RollbackTransaction(x)
    \/ \E x \in Idle \cup (TxIds \ transactions) : CommitStart(x)
    \/ \E x \in TxIds : CommitApply(x)
    \/ \E x \in TxIds : CommitWrite(x)
    \/ (NoneOpen /\ CreateIndex("A", "email_idx", <<"email">>, TRUE))

\* Run without the write-ahead log (walEnabled: false), which these runs do
\* not look at.
SpecData ==
    InitWith([DefaultOptions EXCEPT !.walEnabled = FALSE]) /\ [][NextData]_vars

\* The same, with the fairness the event loop gives: the clock advances and a
\* settled promise runs its continuation.  Nothing obliges a caller to commit
\* or roll back.
SpecLockFair ==
    /\ SpecLock
    /\ WF_vars(Tick)
    /\ \A x \in TxIds : WF_vars(CallRejected(x)) /\ WF_vars(ResumeAdd(x))

\* Runs with the write-ahead log, with syncWrites set and not set: one caller
\* inserts rows in transactions it commits, the scheduler checkpoints, and the
\* process may die at any step and be started again on the same directory.
WalRows == {Row(i, "a") : i \in 1..MaxId}

NextWal ==
    \/ StartTransaction(MaxWalTx, MaxActive)
    \/ \E x \in Idle, row \in WalRows : AddDataCall(x, "A", row)
    \/ \E x \in TxIds : ResumeAdd(x)
    \/ \E x \in Idle : CommitStart(x)
    \/ \E x \in TxIds : CommitApply(x)
    \/ \E x \in TxIds : CommitWrite(x)
    \/ Checkpoint
    \/ Crash
    \/ Reopen

SpecWal ==
    /\ \E syncWrites \in BOOLEAN :
           InitWith([DefaultOptions EXCEPT !.syncWrites = syncWrites])
    /\ [][NextWal]_vars

\* Runs on a new directory, with syncWrites set and not set: one caller
\* creates and deletes tables, inserts rows in transactions it commits,
\* closes the engine and opens the directory again with the same key; a table
\* may be created or deleted while a commit is under way.
DirRows == {Row(1, "a")}

\* entries the log has room for
WalRoom == Len(walDisk) + Len(walBuffer) < MaxLines

NextDir ==
    \/ \E t \in Tables, schema \in Schemas : WalRoom /\ CreateTable(t, schema)
    \/ \E t \in Tables : WalRoom /\ DeleteTable(t)
    \/ StartTransaction(MaxDirTx, MaxActive)
    \/ \E x \in Idle, row \in DirRows : AddDataCall(x, "A", row)
    \/ \E x \in TxIds : ResumeAdd(x)
    \/ \E x \in Idle : CommitStart(x)
    \/ \E x \in TxIds : CommitApply(x)
    \/ \E x \in TxIds : CommitWrite(x)
    \/ Checkpoint
    \/ (NoneOpen /\ Close)
    \/ Reopen

SpecDir ==
    /\ \E syncWrites \in BOOLEAN :
           InitEmpty([DefaultOptions EXCEPT !.syncWrites = syncWrites])
    /\ [][NextDir]_vars

\* Runs with two keys and somebody who can write to the directory: one caller
\* creates table A, inserts rows in transactions it commits, reads, closes the
\* engine; the directory is opened with either key; in between, fields of the
\* table file are rewritten and lines of the WAL segments are rewritten or
\* appended.
KeyRows == {Row(1, "a")}

\* lines somebody appends: text that is no JSON, the JSON text of an entry
\* with its sha256 checksum, and the JSON text of an entry with another
\* checksum
ForgedOperation == [type |-> "write", tableName |-> "A", data |-> <<Row(2, "b")>>]
ForgedEntry == [sequence |-> 1, timestamp |-> 0, operation |-> ForgedOperation,
                checksum |-> Checksum(ForgedOperation)]
ForgedLines ==
    {PlainLine(NotJSON), PlainLine(ForgedEntry),
     PlainLine([ForgedEntry EXCEPT !.checksum = Checksum(Null)])}

\* the directory holds what the engine wrote: these runs rewrite one field or
\* one line, or append one line
Untouched ==
    /\ \A t \in Tables : files[t].authTag = "intact" /\ files[t].ciphertext = "intact"
    /\ \A n \in 1..Len(walDisk) :
           \E key \in Keys :
               walDisk[n] = EncryptWALData(key, DecryptWALData(key, walDisk[n]).data)

NextKeys ==
    \/ \E schema \in Schemas : WalRoom /\ CreateTable("A", schema)
    \/ StartTransaction(MaxKeyTx, MaxActive)
    \/ \E x \in Idle, row \in KeyRows : AddDataCall(x, "A", row)
    \/ \E x \in TxIds : ResumeAdd(x)
    \/ \E x \in Idle : CommitStart(x)
    \/ \E x \in TxIds : CommitApply(x)
    \/ \E x \in TxIds : CommitWrite(x)
    \/ ReadDataCall("A")
    \/ (NoneOpen /\ Close)
    \/ \E key \in Keys : Open(key)
    \/ \E field \in TamperFields, how \in Tamperings :
           Untouched /\ TamperFile("A", field, how)
    \/ \E n \in 1..Len(walDisk) : Untouched /\ TamperWALLine(n)
    \/ \E line \in ForgedLines : Untouched /\ WalRoom /\ AppendWALLine(line)

SpecKeys == InitEmpty(DefaultOptions) /\ [][NextKeys]_vars

\* Concurrent addData calls without a transaction id on table A.  Each call
\* starts a transaction of its own, adds its row in it and commits it; when the
\* inner addData throws, the call rolls the transaction back and throws.  The
\* callers do not await one another, and the clock runs.
ImplicitRow(x) == Row(x, "a")

\* the call of transaction x has not come to its inner addData yet
NotCalled(x) ==
    /\ callStatus[x] = "none"
    /\ callResult[x] = "none"
    /\ Len(txOps[x]) = 0
    /\ commits[x].pc = "idle"

NextImplicit ==
    \/ StartTransaction(MaxImplicit, MaxImplicit)
    \/ \E x \in transactions : NotCalled(x) /\ AddDataCall(x, "A", ImplicitRow(x))
    \/ \E x \in TxIds : CallRejected(x)
    \/ \E x \in TxIds : ResumeAdd(x)
    \/ \E x \in Idle : callResult[x] = "ok" /\ CommitStart(x)
    \/ \E x \in TxIds : CommitApply(x)
    \/ \E x \in TxIds : CommitWrite(x)
    \/ \E x \in Idle : callResult[x] \notin {"none", "ok"} /\ RollbackTransaction(x)
    \/ Tick

SpecImplicit == InitWith(DefaultOptions) /\ [][NextImplicit]_vars

\* A reader beside a writer: one caller inserts rows into table A in
\* transactions it commits, another calls readData of the table at any moment.
NextRead ==
    \/ StartTransaction(MaxReadTx, MaxActive)
    \/ \E x \in Idle, row \in WalRows : AddDataCall(x, "A", row)
    \/ \E x \in TxIds : ResumeAdd(x)
    \/ \E x \in Idle : CommitStart(x)
    \/ \E x \in TxIds : CommitApply(x)
    \/ \E x \in TxIds : CommitWrite(x)
    \/ ReadDataCall("A")

SpecRead == InitWith(DefaultOptions) /\ [][NextRead]_vars

\* Runs with callers that do not await ready(): one caller inserts rows in
\* transactions it commits and reads table A, the process may die at any step,
\* and table A is read as soon as the constructor of the next instance has
\* returned.
NextInit ==
    \/ StartTransaction(MaxInitTx, MaxActive)
    \/ \E x \in Idle, row \in WalRows : AddDataCall(x, "A", row)
    \/ \E x \in TxIds : ResumeAdd(x)
    \/ \E x \in Idle : CommitStart(x)
    \/ \E x \in TxIds : CommitApply(x)
    \/ \E x \in TxIds : CommitWrite(x)
    \/ ReadDataCall("A")
    \/ Crash
    \/ Construct(MasterKey)
    \/ FinishInitialization

SpecInit == InitWith(DefaultOptions) /\ [][NextInit]_vars

\* Runs with callers that keep a transaction id after its commit or rollback:
\* rows are added to table A in transactions that commit or roll back, and
\* addData and commitTransaction are also called with the ids of terminated
\* transactions.
Terminated ==
    {x \in TxIds : /\ x < nextTx
                   /\ x \notin transactions
                   /\ commits[x].pc = "idle"
                   /\ callStatus[x] = "none"}

NextDead ==
    \/ StartTransaction(MaxDeadTx, MaxActive)
    \/ \E x \in Idle \cup Terminated : AddDataCall(x, "A", LockRow)
    \/ \E x \in TxIds : ResumeAdd(x)
    \/ \E x \in Idle : RollbackTransaction(x)
    \/ \E x \in Idle \cup Terminated : CommitStart(x)
    \/ \E x \in TxIds : CommitApply(x)
    \/ \E x \in TxIds : CommitWrite(x)

SpecDead == InitWith(DefaultOptions) /\ [][NextDead]_vars

\* addData of a row without id: "if (!data.id) data.id =
\* crypto.randomBytes(16).toString('hex')", any of the values the generator
\* may give
GeneratedIds == (MaxId + 1)..(MaxId + MaxGenerated)

AddDataNoId(transactionId, tableName, data) ==
    \E id \in GeneratedIds :
        AddDataCall(transactionId, tableName, [data EXCEPT !.id = id])

\* Runs on row ids: rows with and without an id are added to table A, rows
\* are updated with patches that carry an id of their own, and rows are
\* deleted, in transactions that commit or roll back.
IdRows == {Row(i, "a") : i \in 1..MaxId}
IdPatches == {[id |-> i, email |-> "b"] : i \in 1..MaxId}

NextIds ==
    \/ StartTransaction(MaxIdTx, MaxActive)
    \/ \E x \in Idle, row \in IdRows : AddDataCall(x, "A", row)
    \/ \E x \in Idle : AddDataNoId(x, "A", Row(0, "a"))
    \/ \E x \in Idle, f \in Filters, p \in IdPatches : UpdateDataCall(x, "A", f, p)
    \/ \E x \in Idle, f \in Filters : DeleteDataCall(x, "A", f)
    \/ \E x \in TxIds : ResumeAdd(x)
    \/ \E x \in TxIds : ResumeUpdate(x)
    \/ \E x \in TxIds : ResumeDelete(x)
    \/ \E x \in Idle : RollbackTransaction(x)
    \/ \E x \in Idle : CommitStart(x)
    \/ \E x \in TxIds : CommitApply(x)
    \/ \E x \in TxIds : CommitWrite(x)

SpecIds ==
    InitWith([DefaultOptions EXCEPT !.walEnabled = FALSE]) /\ [][NextIds]_vars

\* Runs with listeners that throw: listeners are registered with on() for the
\* events of addData, commitTransaction and rollbackTransaction while rows
\* are added to table A in transactions that commit or roll back.
ListenEvents == {"add", "commitTransaction", "rollbackTransaction"}

NextListen ==
    \/ \E event \in ListenEvents : On(event)
    \/ StartTransaction(MaxListenTx, MaxActive)
    \/ \E x \in Idle, row \in IdRows : AddDataCall(x, "A", row)
    \/ \E x \in TxIds : ResumeAdd(x)
    \/ \E x \in Idle : RollbackTransaction(x)
    \/ \E x \in Idle : CommitStart(x)
    \/ \E x \in TxIds : CommitApply(x)
    \/ \E x \in TxIds : CommitWrite(x)

SpecListen == InitWith(DefaultOptions) /\ [][NextListen]_vars

\* Queries on a table at rest.  Table A holds rows with distinct ids, some
\* of them without the email column; a single-column and a compound index
\* are created on it, and queryData is called with filters of one or two
\* conditions, with filters that hold a nested filter, and with sort, limit
\* and offset; each run looks at one query.
QueryRows == Rows \cup {[id |-> i] : i \in 1..MaxId}

QueryTables ==
    {rows \in UNION {[1..n -> QueryRows] : n \in 0..MaxId} :
         \A i, j \in 1..Len(rows) : rows[i].id = rows[j].id => i = j}

InitQuery ==
    \E rows \in QueryTables :
        InitStore(DefaultOptions,
                  [t \in Tables |-> IF t = "A" /\ rows # <<>>
                                    THEN WrittenFile(MasterKey)
                                    ELSE CreatedFile(NoSchema, MasterKey)],
                  [t \in Tables |-> IF t = "A" THEN rows ELSE <<>>])

Condition(column, operator, value) ==
    [column |-> column, operator |-> operator, value |-> value]

EqualityConditions ==
    {Condition("email", "==", e) : e \in Emails}
        \cup {Condition("id", "==", i) : i \in 1..MaxId}

QueryConditions ==
    EqualityConditions
        \cup {Condition("email", "!=", "a"), Condition("email", "like", "A"),
              Condition("email", "contains", "d"),
              Condition("email", "in", <<"a">>), Condition("id", "in", <<1>>)}
        \cup {Condition("id", o, i) : o \in {"!=", ">", ">=", "<", "<="},
                                      i \in 1..MaxId}

Connectives == {"and", "or"}

FlatFilters ==
    {[operator |-> o, conditions |-> <<c>>] :
         o \in Connectives, c \in QueryConditions}
        \cup {[operator |-> o, conditions |-> <<c, d>>] :
                  o \in Connectives, c \in QueryConditions,
                  d \in EqualityConditions}

InnerFilters ==
    {[operator |-> o, conditions |-> <<c>>] :
         o \in Connectives, c \in EqualityConditions}

NestedFilters ==
    {[operator |-> o, conditions |-> <<f>>] : o \in Connectives, f \in InnerFilters}
        \cup {[operator |-> o, conditions |-> <<c, f>>] :
                  o \in Connectives, c \in EqualityConditions, f \in InnerFilters}

Sorts == {NoSort} \cup {[column |-> "id", direction |-> d] : d \in {"asc", "desc"}}

PageQueries ==
    {[filter |-> f, sort |-> srt, limit |-> l, offset |-> o] :
         f \in {NoFilter, [operator |-> "and",
                           conditions |-> <<Condition("email", "==", "a")>>]},
         srt \in Sorts,
         l \in {Absent} \cup 0..MaxLimit,
         o \in {Absent} \cup 0..MaxOffset}

Queries ==
    {[NoQuery EXCEPT !.filter = f] : f \in FlatFilters \cup NestedFilters}
        \cup PageQueries

NextQuery ==
    \/ CreateIndex("A", "email_idx", <<"email">>, FALSE)
    \/ CreateIndex("A", "pair_idx", <<"email", "id">>, FALSE)
    \/ (readResult = NoRead /\ \E query \in Queries : QueryDataCall("A", query))

SpecQuery == InitQuery /\ [][NextQuery]_vars

\* Runs with schemas: table A is created with a schema that has required
\* fields; rows with and without the email column are added and rows are
\* updated with patches that give one column, in transactions that commit or
\* roll back.
ValidatedSchemas == {"S", "R"}
SchemaRows == {Row(1, "a"), [id |-> 2]}
SchemaPatches == {[email |-> "b"], [name |-> "n"]}

NextSchema ==
    \/ \E schema \in ValidatedSchemas : CreateTable("A", schema)
    \/ StartTransaction(MaxSchemaTx, MaxActive)
    \/ \E x \in Idle, row \in SchemaRows : TableExists("A") /\ AddDataCall(x, "A", row)
    \/ \E x \in Idle, f \in Filters, p \in SchemaPatches :
           TableExists("A") /\ UpdateDataCall(x, "A", f, p)
    \/ \E x \in TxIds : ResumeAdd(x)
    \/ \E x \in TxIds : ResumeUpdate(x)
    \/ \E x \in Idle : RollbackTransaction(x)
    \/ \E x \in Idle : CommitStart(x)
    \/ \E x \in TxIds : CommitApply(x)
    \/ \E x \in TxIds : CommitWrite(x)

SpecSchema ==
    InitEmpty([DefaultOptions EXCEPT !.walEnabled = FALSE]) /\ [][NextSchema]_vars

\* ---- runs that close the engine: a directory under each setting of the
\* encrypt and walEnabled options, transactions that take and wait for the lock
\* of table A, close() called once and again, and the directory opened again
NextClose ==
    \/ StartTransaction(MaxCloseTx, MaxCloseTx)
    \/ \E x \in Idle, row \in WalRows : AddDataCall(x, "A", row)
    \/ \E x \in TxIds : ResumeAdd(x)
    \/ \E x \in Idle : CommitStart(x)
    \/ \E x \in TxIds : CommitApply(x)
    \/ \E x \in TxIds : CommitWrite(x)
    \/ Close
    \/ CloseAgain
    \/ Reopen

SpecClose ==
    /\ \E encrypt \in BOOLEAN, walEnabled \in BOOLEAN :
           InitWith([DefaultOptions EXCEPT !.encrypt = encrypt,
                                           !.walEnabled = walEnabled])
    /\ [][NextClose]_vars

\* ---- runs with flushes in flight: _writeWAL is called for writes of either
\* table while earlier calls and checkpoints await the file system, under each
\* setting of syncWrites
FlushOperations ==
    {[type |-> "write", tableName |-> t, data |-> <<>>] : t \in Tables}

NextFlush ==
    \/ \E operation \in FlushOperations : WriteWALCall(operation)
    \/ CheckpointStart
    \/ \E i \in 1..MaxFlushSeq + 1 : FlushWALEnd(i)
    \/ \E i \in 1..MaxFlushSeq + 1 : CheckpointEnd(i)

SpecFlush ==
    /\ \E syncWrites \in BOOLEAN :
           InitWith([DefaultOptions EXCEPT !.syncWrites = syncWrites])
    /\ [][NextFlush]_vars

\* ---- addData without a transaction id, one call at a time, on a table with
\* up to two unique indexes: each call starts a transaction, runs the inner
\* addData, and commits when that returned or rolls back when it threw
NextAtomic ==
    \/ (NoneOpen /\ CreateIndex("A", "id_idx", <<"id">>, TRUE))
    \/ (NoneOpen /\ CreateIndex("A", "email_idx", <<"email">>, TRUE))
    \/ StartTransaction(MaxAtomicTx, MaxActive)
    \/ \E x \in transactions, row \in Rows :
           NotCalled(x) /\ AddDataCall(x, "A", row)
    \/ \E x \in TxIds : ResumeAdd(x)
    \/ \E x \in Idle : callResult[x] = "ok" /\ CommitStart(x)
    \/ \E x \in TxIds : CommitApply(x)
    \/ \E x \in TxIds : CommitWrite(x)
    \/ \E x \in Idle : callResult[x] \notin {"none", "ok"} /\ RollbackTransaction(x)

SpecAtomic ==
    InitWith([DefaultOptions EXCEPT !.walEnabled = FALSE]) /\ [][NextAtomic]_vars

\* ---- runs that reopen the directory: a unique index on email is created on
\* table A, rows are inserted one call at a time without a transaction id, and
\* between calls the engine is closed and the directory opened again
NextRestart ==
    \/ (NoneOpen /\ CreateIndex("A", "email_idx", <<"email">>, TRUE))
    \/ StartTransaction(MaxRestartTx, MaxActive)
    \/ \E x \in transactions, row \in Rows :
           NotCalled(x) /\ AddDataCall(x, "A", row)
    \/ \E x \in TxIds : ResumeAdd(x)
    \/ \E x \in Idle : callResult[x] = "ok" /\ CommitStart(x)
    \/ \E x \in TxIds : CommitApply(x)
    \/ \E x \in TxIds : CommitWrite(x)
    \/ \E x \in Idle : callResult[x] \notin {"none", "ok"} /\ RollbackTransaction(x)
    \/ (NoneOpen /\ Close)
    \/ Reopen

SpecRestart == InitWith(DefaultOptions) /\ [][NextRestart]_vars

\* ---- runs with an array-typed column: table A is created with schema T and
\* rows whose column tags holds an array or an object are added
TagRows == {[id |-> i, tags |-> v] : i \in 1..MaxId, v \in {ArrayValue, ObjectValue}}

NextRetype ==
    \/ CreateTable("A", "T")
    \/ StartTransaction(MaxRetypeTx, MaxActive)
    \/ \E x \in Idle, row \in TagRows : TableExists("A") /\ AddDataCall(x, "A", row)
    \/ \E x \in TxIds : ResumeAdd(x)
    \/ \E x \in Idle : RollbackTransaction(x)
    \/ \E x \in Idle : CommitStart(x)
    \/ \E x \in TxIds : CommitApply(x)
    \/ \E x \in TxIds : CommitWrite(x)

SpecRetype ==
    InitEmpty([DefaultOptions EXCEPT !.walEnabled = FALSE]) /\ [][NextRetype]_vars

\* ---- the WAL padding on its own: a plaintext buffer of each length up to
\* MaxPlainLen under each block size above 4 is padded with any random bytes,
\* and what comes out, as it is or with its trailer rewritten, is unpadded
PlainBytes == {65, 66}
RandomBytes == {0, 255}
BlockSizes == {blockSize \in 1..MaxBlockSize : blockSize > 4}
Buffers(bytes, maxLen) == UNION {[1..n -> bytes] : n \in 0..maxLen}

InitPad ==
    \E blockSize \in BlockSizes, plaintextBuffer \in Buffers(PlainBytes, MaxPlainLen) :
        InitBuffer([DefaultOptions EXCEPT !.walPaddingSize = blockSize],
                   [t \in Tables |-> NoFile], NoTables,
                   [NoPadding EXCEPT !.pc = "plain",
                                     !.plaintext = plaintextBuffer])

NextPad ==
    \/ \E padding \in [1..PaddingLength(Len(walPadding.plaintext),
                                        options.walPaddingSize) -> RandomBytes] :
           ApplyPadding(padding)
    \/ \E n \in 0..MaxTrailer : RewriteTrailer(n)
    \/ RemovePadding

SpecPad == InitPad /\ [][NextPad]_vars

\* ---- the legacy store: the user starts transactions, pushes operations of
\* every type on them and commits them, and calls readData without a
\* transaction id
NextLegacy ==
    \/ LegacyStartTransaction
    \/ \E x \in LegacyIds, type \in LegacyTypes : LegacyPushOperation(x, type)
    \/ \E x \in LegacyIds, found \in BOOLEAN : LegacyCommitTransaction(x, found)
    \/ LegacyReadDataCall

SpecLegacy == InitEmpty(DefaultOptions) /\ [][NextLegacy]_vars

\* ------------------------------------------------------------ lock claims
Expired(waiter) == now - waiter.startTime >= waiter.timeout

\* the position of a transaction in the waiter queue of a table, 0 when absent
QueuePos(tableName, transactionId) ==
    IF \E i \in 1..Len(lockQueue[tableName]) :
           lockQueue[tableName][i].transactionId = transactionId
    THEN CHOOSE i \in 1..Len(lockQueue[tableName]) :
             lockQueue[tableName][i].transactionId = transactionId
    ELSE 0

\* C2: lock FIFO.  Whenever a transaction is granted the lock of a table, no
\* other transaction is still queued for that table with an unexpired deadline
\* unless it stands behind the grantee in the queue (it asked later).
LockFIFO ==
    [][\A t \in Tables, x \in TxIds :
          (locks'[t] = x /\ locks[t] # x) =>
              \A i \in 1..Len(lockQueue[t]) :
                  LET waiter == lockQueue[t][i] IN
                  (waiter.transactionId # x /\ ~Expired(waiter)) =>
                      (QueuePos(t, x) # 0 /\ QueuePos(t, x) < i)]_vars

\* the live transactions whose lock set holds the table
Holders(tableName) == {x \in transactions : tableName \in txLocks[x]}

\* a call that asked for the lock and was granted it at once
AcquiredAtOnce(x) == callStatus[x] = "none" /\ callStatus'[x] = "granted"

\* C3: mutual exclusion.  No table is in the lock set of two live transactions,
\* a live transaction's lock set names only tables whose recorded holder it is,
\* and _acquireLock grants at once only a free table or one the caller holds
\* already, in which case neither the holder nor any queue changes.
MutualExclusion ==
    /\ [](\A t \in Tables :
             /\ Cardinality(Holders(t)) <= 1
             /\ \A x \in Holders(t) : locks[t] = x)
    /\ [][\A x \in TxIds :
             AcquiredAtOnce(x) =>
                 LET t == calls'[x].tableName IN
                 /\ locks[t] \in {NoTx, x}
                 /\ locks'[t] = x
                 /\ locks[t] = x => (locks' = locks /\ lockQueue' = lockQueue)]_vars

\* C3 witness: a transaction holds a table it acquired twice while another
\* transaction waits for it
MutualExclusionWitness ==
    \E x \in transactions, t \in Tables :
        /\ locks[t] = x
        /\ Len(txOps[x]) = 2
        /\ txOps[x][1].tableName = t /\ txOps[x][2].tableName = t
        /\ Len(lockQueue[t]) > 0

\* a call that still waits in a queue although its deadline has passed
WaitsPastDeadline(x) ==
    /\ callStatus[x] = "waiting"
    /\ \E t \in Tables : \E i \in 1..Len(lockQueue[t]) :
           lockQueue[t][i].transactionId = x /\ Expired(lockQueue[t][i])

\* C4: every lock request terminates.  A call that waits for a lock when
\* start + lockTimeout has passed is eventually granted the lock or fails,
\* whether or not the holder ever releases it.
LockRequestTerminates ==
    \A x \in TxIds : WaitsPastDeadline(x) ~> (callStatus[x] # "waiting")

\* C5: a lock is never left free while an unexpired waiter is queued for it.
NoFreeLockWithLiveWaiter ==
    \A t \in Tables :
        locks[t] = NoTx =>
            \A i \in 1..Len(lockQueue[t]) : Expired(lockQueue[t][i])

\* ------------------------------------------------------------ data claims
\* commitTransaction of x ends with an error in this step
CommitFails(x) == commits[x].pc = "apply" /\ commits'[x].pc = "idle"

\* C1: commit is atomic on failure.  When commitTransaction fails at one of the
\* buffered operations, every table the transaction names holds the rows it
\* held when the commit began, no lock is held by the transaction, the
\* transaction is gone and the error reaches the caller.
CommitAtomicOnFailure ==
    [][\A x \in TxIds :
          CommitFails(x) =>
              /\ \A t \in TouchedTables(x) : tables'[t] = commits[x].before[t]
              /\ \A t \in Tables : locks'[t] # x
              /\ x \notin transactions'
              /\ commitResult'[x] \ {"ok", "TransactionNotFound"} # {}]_vars

\* rollbackTransaction of x, called by the user
RollsBack(x) ==
    /\ x \in transactions /\ x \notin transactions'
    /\ commits[x].pc = "idle"
    /\ commitResult'[x] = {}

\* a transaction that is gone and that no commitTransaction call ever found
RolledBack(x) ==
    /\ x < nextTx /\ x \notin transactions
    /\ commitResult[x] \subseteq {"TransactionNotFound"}

\* C6: rollback discards uncommitted work.  The rollback of a transaction that
\* was never committed leaves every table as it is and no lock held by the
\* transaction; afterwards a table changes only in the write of a commit that
\* runs for another transaction, and a commitTransaction call on the rolled-back
\* transaction starts no commit, so what it buffered is never applied.
RollbackDiscards ==
    /\ [][\A x \in TxIds :
             RollsBack(x) => (tables' = tables /\ \A t \in Tables : locks'[t] # x)]_vars
    /\ [][tables' # tables =>
             \E x \in TxIds : commits[x].pc = "write" /\ ~RolledBack(x)]_vars
    /\ [](\A x \in TxIds : RolledBack(x) => commits[x].pc = "idle")

\* C6 witness: a transaction that buffered an operation was rolled back while
\* the table held a row, and a later commitTransaction call on it found nothing
RollbackDiscardsWitness ==
    \E x \in TxIds :
        /\ RolledBack(x)
        /\ commitResult[x] = {"TransactionNotFound"}
        /\ Len(txOps[x]) > 0
        /\ Len(tables["A"]) > 0

\* every id an index stores under a key is the id of a row of the owning table
\* whose indexed columns give that key
EntriesResolve(index) ==
    \A k \in DOMAIN index.data :
        \A p \in 1..Len(index.data[k]) :
            \E i \in 1..Len(tables[index.tableName]) :
               LET item == tables[index.tableName][i] IN
               /\ item.id = index.data[k][p]
               /\ BuildIndexKey(item, index.columns) = k

\* C7: index consistency, at the states where no transaction is open: every id
\* stored under a key is the id of a row of the owning table whose indexed
\* columns give that key.
IndexConsistency ==
    NoneOpen => \A n \in 1..Len(indexes) : EntriesResolve(indexes[n])

\* C8: unique constraint on table data.  While a unique index on a table
\* exists, the table holds no two rows with the same indexed values.
UniqueTableData ==
    \A n \in 1..Len(indexes) :
        indexes[n].unique =>
            LET rows == tables[indexes[n].tableName] IN
            \A i, j \in 1..Len(rows) :
                i # j => BuildIndexKey(rows[i], indexes[n].columns)
                             # BuildIndexKey(rows[j], indexes[n].columns)

\* C9: every bucket of a unique index holds at most one id.
UniqueIndexBuckets ==
    \A n \in 1..Len(indexes) :
        indexes[n].unique =>
            \A k \in DOMAIN indexes[n].data : Len(indexes[n].data[k]) <= 1

\* the engine comes up again after a crash
Recovers == phase = "down" /\ phase' = "ready"

\* C10: crash recovery.  When the directory is opened again after a crash,
\* every table holds the rows of the last write intent logged for it, and so
\* the rows written by every commit that had returned before the crash.  Stated
\* for the crashes at which no write was pending (every table file held the
\* last intent logged for it): recovery leaves those tables as they are.
RecoveryKeepsCommits ==
    [][(Recovers /\ tables = lastIntent) => tables' = lastIntent]_vars

\* ------------------------------------------------------- directory claims
\* the directory is opened again, with the key it was created under, after
\* close()
ReopensAfterClose ==
    /\ phase = "closed"
    /\ phase' = "ready"
    /\ encryptionKey' = MasterKey

\* what readData of a table returned right before close(): the engine of
\* these runs held the key the directory was created under
ReadBeforeClose(tableName) ==
    ReadTable(MasterKey, files[tableName], tableName, tables[tableName])

\* C11: close/reopen round trip.  When the directory is opened again with the
\* same key after close(), readData of every existing table succeeds and
\* returns the rows it returned right before close(), tables that were
\* created and never written included.
CloseReopenRoundTrip ==
    [][ReopensAfterClose =>
          \A t \in Tables :
              (TableExists(t) /\ ReadBeforeClose(t).error = "none") =>
                  ReadData(t)' = [error |-> "none",
                                  rows |-> ReadBeforeClose(t).rows]]_vars

\* ------------------------------------------------------------ key claims
\* a new instance is opened on the directory
Opens == phase \in {"down", "closed"} /\ phase' = "ready"

\* a readData call of a table returns
Reads(tableName) ==
    /\ phase = "ready"
    /\ phase' = "ready"
    /\ readResult' # readResult
    /\ readResult'.tableName = tableName

\* the line decrypts and authenticates under the WAL key derived from the key
\* and the checksum of its entry matches
AuthenticLine(key, line) ==
    /\ line.prefix = "WAL:"
    /\ DecryptData(DeriveWALKey(key), line).error = "none"
    /\ LET walEntry == DecryptData(DeriveWALKey(key), line).data
       IN  Checksum(walEntry.operation) = walEntry.checksum

\* the entries the recovery summary lists
ListedEntries(failures) == {failures[i].entry : i \in 1..Len(failures)}

\* C12: with encryption enabled, recovery applies the operation of a line only
\* if the line authenticates under the derived WAL key and its checksum
\* matches.  Every other line of the segments is listed in the recovery
\* summary, and the directory after recovery is what the authentic lines alone
\* give.
OnlyAuthenticLinesApplied ==
    [][Opens =>
          LET key == encryptionKey'
              authentic == SelectSeq(walDisk, LAMBDA line : AuthenticLine(key, line))
              D == [tables |-> tables, files |-> files]
          IN  /\ \A n \in 1..Len(walDisk) :
                     ~AuthenticLine(key, walDisk[n]) =>
                         n \in ListedEntries(lastWALRecoveryFailures')
              /\ [tables |-> tables', files |-> files'] =
                     RecoverFromWAL(D, <<>>, authentic, key, 1).D]_vars

\* recovery fails on the line: it does not decrypt, or its checksum does not
\* match
FailsOn(key, line) ==
    \/ DecryptWALData(key, line).error # "none"
    \/ LET walEntry == DecryptWALData(key, line).data
       IN  Checksum(walEntry.operation) # walEntry.checksum

\* the operation of a line recovery does not fail on
OperationOf(key, line) == DecryptWALData(key, line).data.operation

\* the lines recovery does not fail on that name the table
LinesOn(key, lines, tableName) ==
    {n \in 1..Len(lines) :
        /\ ~FailsOn(key, lines[n])
        /\ OperationOf(key, lines[n]).tableName = tableName}

\* the greatest element of a non-empty set of numbers
Last(S) == CHOOSE n \in S : \A m \in S : m <= n

\* what an operation leaves of a table: its rows and its file
LeftBy(operation, key) ==
    CASE operation.type = "write" ->
             [rows |-> operation.data, file |-> WrittenFile(key)]
      [] operation.type = "create_table" ->
             [rows |-> <<>>, file |-> RecoveredFile(operation.schema, key)]
      [] OTHER -> [rows |-> <<>>, file |-> NoFile]

\* C13: a failure on one WAL entry is recorded and does not stop recovery.
\* When an instance is opened, the summary lists, in order, exactly the lines
\* recovery fails on; every table holds what the last line that does not fail
\* and names it leaves, whether or not a failing line precedes that line; and
\* the instance becomes ready.
RecoveryContinuesAfterFailure ==
    [][Opens =>
          LET key == encryptionKey'
              failures == lastWALRecoveryFailures'
          IN  /\ phase' = "ready"
              /\ ListedEntries(failures) =
                     {n \in 1..Len(walDisk) : FailsOn(key, walDisk[n])}
              /\ \A i, j \in 1..Len(failures) :
                     i < j => failures[i].entry < failures[j].entry
              /\ \A t \in Tables :
                     IF LinesOn(key, walDisk, t) = {}
                     THEN tables'[t] = tables[t] /\ files'[t] = files[t]
                     ELSE LET operation ==
                                  OperationOf(key, walDisk[Last(LinesOn(key, walDisk, t))])
                          IN  /\ tables'[t] = LeftBy(operation, key).rows
                              /\ files'[t] = LeftBy(operation, key).file]_vars

\* a new instance is ready; its summary lists a line that precedes a write
\* entry the engine logged and recovery did not fail on, and the table holds
\* the rows of that entry
RecoveryContinuesAfterFailureWitness ==
    /\ phase = "ready"
    /\ walSequence = 0
    /\ \E i \in 1..Len(lastWALRecoveryFailures), m \in 1..Len(walDisk) :
           /\ lastWALRecoveryFailures[i].entry < m
           /\ AuthenticLine(encryptionKey, walDisk[m])
           /\ ~FailsOn(encryptionKey, walDisk[m])
           /\ OperationOf(encryptionKey, walDisk[m]).type = "write"
           /\ OperationOf(encryptionKey, walDisk[m]).data # <<>>
           /\ tables["A"] = OperationOf(encryptionKey, walDisk[m]).data
           /\ files["A"] = WrittenFile(encryptionKey)

\* the directory was written under the key: its table files were sealed with
\* it and every line of its WAL segments was written with the WAL key derived
\* from it
WrittenUnder(key) ==
    /\ \A t \in Tables : TableExists(t) => files[t].key = key
    /\ \A n \in 1..Len(walDisk) : AuthenticLine(key, walDisk[n])

AuthenticationErrors == {"AuthenticationFailed", "DecryptionFailed"}

\* C14: wrong-key isolation.  When a directory written under one key is opened
\* with another key, recovery records one failure per WAL entry, applies none
\* and leaves the table files unchanged; and every readData of a table whose
\* file was sealed under another key than the instance's fails with an
\* authentication error and returns no rows.
WrongKeyIsolation ==
    [][/\ \A k1 \in Keys :
              (Opens /\ WrittenUnder(k1) /\ encryptionKey' # k1) =>
                  /\ Len(lastWALRecoveryFailures') = Len(walDisk)
                  /\ ListedEntries(lastWALRecoveryFailures') = 1..Len(walDisk)
                  /\ tables' = tables
                  /\ files' = files
                  /\ \A t \in Tables :
                         TableExists(t) =>
                             /\ ReadData(t)'.error \in AuthenticationErrors
                             /\ ReadData(t)'.rows = <<>>
       /\ \A t \in Tables :
              (Reads(t) /\ TableExists(t) /\ files[t].key # encryptionKey) =>
                  /\ readResult'.error \in AuthenticationErrors
                  /\ readResult'.rows = <<>>]_vars

\* an instance opened with K2 on a directory written under K1 has read table
\* A, which holds rows: the read failed, one failure per WAL line is recorded
WrongKeyIsolationWitness ==
    /\ phase = "ready"
    /\ encryptionKey = "K2"
    /\ WrittenUnder("K1")
    /\ TableExists("A")
    /\ tables["A"] # <<>>
    /\ Len(walDisk) > 1
    /\ Len(lastWALRecoveryFailures) = Len(walDisk)
    /\ readResult.tableName = "A"
    /\ readResult.error = "AuthenticationFailed"
    /\ readResult.rows = <<>>

\* the tag field or the ciphertext field of the file is not what was written
Modified(file) == file.authTag # "intact" \/ file.ciphertext # "intact"

\* C15: tamper detection.  When the tag field or the ciphertext field of a
\* table file was modified after a committed write, the next readData of the
\* table fails with an authentication error and returns no rows.
TamperDetection ==
    [][\A t \in Tables :
           (Reads(t) /\ files[t].shape = "written" /\ Modified(files[t])) =>
               /\ readResult'.error \in AuthenticationErrors
               /\ readResult'.rows = <<>>]_vars

\* ----------------------------------------------------- concurrency claims
\* the addData call of transaction x has returned or thrown
Returned(x) == x < nextTx /\ x \notin transactions /\ commits[x].pc = "idle"

\* the addData call of transaction x has thrown
Threw(x) == Returned(x) /\ "ok" \notin commitResult[x]

\* the rows of a table file, as a set
RowSet(tableName) == {tables[tableName][i] : i \in 1..Len(tables[tableName])}

\* C16: no lost update under concurrency.  Of the concurrent addData calls
\* without a transaction id on table A none throws; at most one of their
\* commits is under way at a time; and when all of them have returned, the
\* table holds its previous rows (none) and the row of each call, once.
ConcurrentAddsAllSucceed ==
    /\ \A x \in 1..MaxImplicit : ~Threw(x)
    /\ Cardinality({x \in 1..MaxImplicit : commits[x].pc # "idle"}) <= 1
    /\ (\A x \in 1..MaxImplicit : Returned(x)) =>
           /\ RowSet("A") = {ImplicitRow(x) : x \in 1..MaxImplicit}
           /\ Len(tables["A"]) = MaxImplicit

\* the rows of a table after the buffered operations from the i-th on were
\* applied to the given rows, one after the other; failed when one of them
\* throws
RECURSIVE RowsAfter(_, _, _, _)
RowsAfter(rows, operations, i, tableName) ==
    IF i > Len(operations) THEN [rows |-> rows, error |-> "none"]
    ELSE IF operations[i].tableName # tableName
    THEN RowsAfter(rows, operations, i + 1, tableName)
    ELSE LET r == ApplyOperationRows(rows, operations[i])
         IN  IF r.error # "none" THEN r
             ELSE RowsAfter(r.rows, operations, i + 1, tableName)

\* the commitTransaction of x is under way
Committing(x) == commits[x].pc # "idle"

\* C17: reader snapshot.  A readData of table A that runs while a
\* commitTransaction touching the table is under way returns the rows the table
\* had before the commit or the rows it has after the whole commit.
ReaderSnapshot ==
    [][\A x \in TxIds :
           LET before == commits[x].before["A"]
               after == RowsAfter(before, txOps[x], 1, "A")
           IN  (Reads("A") /\ Committing(x) /\ "A" \in TouchedTables(x)
                   /\ after.error = "none") =>
                   readResult'.rows \in {before, after.rows}]_vars

\* -------------------------------------------------------------- WAL claims
\* the entry _writeWAL created last: the last one of the buffer or, when the
\* buffer was flushed, of the segments
LatestEntry ==
    IF Len(walBuffer) > 0 THEN walBuffer[Len(walBuffer)]
    ELSE DecryptWALData(encryptionKey, walDisk[Len(walDisk)]).data

\* commitTransaction of x logs the write intent of its current operation
LogsIntent(x) == commits[x].pc = "apply" /\ commits'[x].pc = "write"

\* commitTransaction of x rewrites the table file for its current operation
RewritesTable(x) ==
    commits[x].pc = "write" /\ commits'[x].pc # "write" /\ phase' = "ready"

WalEntries ==
    [n \in 1..Len(walDisk) |-> DecryptWALData(encryptionKey, walDisk[n]).data]
        \o walBuffer

\* the entries the running instance created: the last walSequence ones
LifetimeEntries ==
    SubSeq(WalEntries, Len(WalEntries) - walSequence + 1, Len(WalEntries))

Closes == phase = "ready" /\ phase' = "closed"

\* C20: close() flushes the WAL.  When close() returns, every entry that was
\* in the buffer when it was called is a line of a segment on disk.
CloseFlushesWAL ==
    [][Closes =>
          \A i \in 1..Len(walBuffer) :
              \E n \in 1..Len(walDisk') :
                  walDisk'[n] = EncryptWALData(encryptionKey, walBuffer[i])]_vars

\* ----------------------------------------------------- readiness claims
\* a readData call of the table returns while _initializeDatabase is under way
ReadsEarly(tableName) ==
    /\ phase = "initializing"
    /\ phase' = "initializing"
    /\ readResult' # readResult
    /\ readResult'.tableName = tableName

\* what readData of the table returns once recovery has finished
ReadAfterRecovery(tableName) ==
    LET recovered == IF options.walEnabled
                     THEN RecoverFromWAL([tables |-> tables, files |-> files],
                                         <<>>, walDisk, encryptionKey, 1).D
                     ELSE [tables |-> tables, files |-> files]
    IN  ReadTable(encryptionKey, recovered.files[tableName], tableName,
                  recovered.tables[tableName])

\* C21: operations wait for readiness.  A readData invoked before ready()
\* resolves takes effect only after recovery has finished: it returns what
\* the table holds after WAL recovery.
OperationsWaitForReadiness ==
    [][\A t \in Tables :
           ReadsEarly(t) =>
               /\ readResult'.error = ReadAfterRecovery(t).error
               /\ readResult'.rows = ReadAfterRecovery(t).rows]_vars

\* --------------------------------------------------- transaction claims
\* a call with the id of a terminated transaction is under way
OnTerminated(x) == x < nextTx /\ x \notin transactions

\* C22: a terminated transaction cannot be resumed.  While addData or
\* commitTransaction runs with the id of a transaction that was committed or
\* rolled back, the tables, the indexes, the lock table and the waiter queues
\* stay as they are, and the call ends with a transaction-not-found error.
TerminatedNotResumed ==
    [][\A x \in TxIds :
           (/\ OnTerminated(x)
            /\ <<calls[x], commitResult[x]>> # <<calls'[x], commitResult'[x]>>) =>
               /\ tables' = tables
               /\ indexes' = indexes
               /\ locks' = locks
               /\ lockQueue' = lockQueue
               /\ callResult'[x] \in {callResult[x], "TransactionNotFound"}
               /\ commitResult'[x] \in {commitResult[x],
                                        commitResult[x] \cup {"TransactionNotFound"}}]_vars

\* -------------------------------------------------------------- id claims
\* no two rows of a table have the same id
UniqueRowIds ==
    \A t \in Tables : \A i, j \in 1..Len(tables[t]) :
        tables[t][i].id = tables[t][j].id => i = j

\* the commit of x applies an add whose id a row of the table already has
AppliesDuplicateAdd(x) ==
    /\ commits[x].pc = "apply"
    /\ commits'[x] # commits[x]
    /\ LET operation == txOps[x][commits[x].i] IN
       /\ operation.type = "add"
       /\ \E i \in 1..Len(tables[operation.tableName]) :
              tables[operation.tableName][i].id = operation.data.id

\* C23: every row of a table has a unique id.  After every step of adds with
\* generated or supplied ids, of updates whose patch carries an id, and of
\* deletes, no table holds two rows with the same id, and an add whose id
\* is already in the table is refused with "Duplicate ID" and leaves the
\* table as it is.
RowIdsUnique ==
    [][/\ UniqueRowIds'
       /\ \A x \in TxIds : AppliesDuplicateAdd(x) =>
              /\ "DuplicateID" \in commitResult'[x]
              /\ tables' = tables]_vars

\* table A holds two rows, one of them changed by a patch with an id of its
\* own, and an add of an id already present was refused
RowIdsUniqueWitness ==
    /\ Len(tables["A"]) = 2
    /\ \E i \in 1..2 : tables["A"][i].email = "b"
    /\ \E x \in TxIds : "DuplicateID" \in commitResult[x]

\* -------------------------------------------------------- listener claims
\* what the addData call of x returns when no listener is registered
AddResultUnheard(x) ==
    LET call == calls[x]
        r == UpdateIndexesForAdd(indexes, call.tableName, call.data)
    IN  IF ~call.hasTransaction THEN "TypeError"
        ELSE IF r.error = "none" THEN "ok" ELSE r.error

\* the addData call of x settles
AddSettles(x) ==
    /\ callStatus[x] = "granted"
    /\ calls[x].kind = "add"
    /\ callStatus'[x] = "none"

\* C24: listener isolation.  With listeners that throw registered, an
\* addData call settles as it does with no listener, and no
\* commitTransaction call ends with the error of a listener.
ListenerIsolation ==
    [][\A x \in TxIds :
           /\ AddSettles(x) => callResult'[x] = AddResultUnheard(x)
           /\ "ListenerError" \notin commitResult'[x]]_vars

\* ----------------------------------------------------------- query claims
\* a queryData call on table A has returned rows
Queried == readResult.call = "queryData" /\ readResult.error = "none"

\* C25: index use is transparent.  Whatever indexes exist on the table, a
\* queryData call returns the rows it returns when the table has no index.
IndexTransparent ==
    Queried => readResult.rows = QueryData(<<>>, tables["A"], "A", readResult.query)

\* an element of a conditions list is itself a filter
IsFilter(element) == "conditions" \in DOMAIN element

\* the item satisfies the element of a conditions list: a condition by
\* comparison, a filter by the and/or combination of its own elements
RECURSIVE Satisfies(_, _)
Satisfies(item, element) ==
    IF ~IsFilter(element) THEN EvaluateCondition(item, element)
    ELSE IF element.operator = "and"
    THEN \A i \in 1..Len(element.conditions) : Satisfies(item, element.conditions[i])
    ELSE \E i \in 1..Len(element.conditions) : Satisfies(item, element.conditions[i])

\* C26: nested filters are evaluated recursively.  A query on a table
\* without indexes whose filter holds a nested filter returns the rows that
\* satisfy the filter with each nested filter taken as the and/or combination
\* of its conditions.
NestedFiltersRecursive ==
    (/\ Queried
     /\ indexes = <<>>
     /\ \E i \in 1..Len(readResult.query.filter.conditions) :
            IsFilter(readResult.query.filter.conditions[i])) =>
        LET Keep(item) == Satisfies(item, readResult.query.filter)
        IN  readResult.rows = SelectSeq(tables["A"], Keep)

\* C27: a condition on a column the row does not have is false.  A query on
\* a table without indexes whose filter is one condition returns no row that
\* lacks the column of the condition.
MissingColumnFalse ==
    (/\ Queried
     /\ indexes = <<>>
     /\ Len(readResult.query.filter.conditions) = 1
     /\ ~IsFilter(readResult.query.filter.conditions[1])) =>
        \A i \in 1..Len(readResult.rows) :
            readResult.query.filter.conditions[1].column \in DOMAIN readResult.rows[i]

\* the elements at positions offset .. offset+limit-1 (counted from 0)
PageOf(data, offset, limit) ==
    LET size == IF Len(data) - offset < limit THEN Len(data) - offset ELSE limit
    IN  [i \in 1..(IF size < 0 THEN 0 ELSE size) |-> data[offset + i]]

\* C28: pagination.  A query on a table without indexes that gives a limit
\* and an offset returns the elements at positions offset .. offset+limit-1
\* of the filtered, sorted rows.
Pagination ==
    (/\ Queried
     /\ indexes = <<>>
     /\ readResult.query.limit # Absent
     /\ readResult.query.offset # Absent) =>
        readResult.rows =
            PageOf(QueryData(<<>>, tables["A"], "A",
                             [readResult.query EXCEPT !.limit = Absent,
                                                      !.offset = Absent]),
                   readResult.query.offset, readResult.query.limit)

\* ---------------------------------------------------------- schema claims
\* the required list of the schema the table was created with
RequiredOf(tableName) ==
    IF schemas[tableName] = NoSchema THEN {}
    ELSE SchemaDefinition(schemas[tableName]).required

\* C29: required fields are enforced on insert.  An addData call with a row
\* that lacks a field of the required list of the table's schema is refused
\* with the error that names a missing field, and nothing is buffered,
\* written, indexed or locked for it.
RequiredEnforced ==
    [][\A x \in TxIds, row \in SchemaRows :
           (/\ AddDataCall(x, "A", row)
            /\ RequiredOf("A") \ DOMAIN row # {}) =>
               /\ \E field \in RequiredOf("A") \ DOMAIN row :
                      callResult'[x] = MissingProperty(field)
               /\ UNCHANGED <<calls, lockVars, txOps, tables, indexes>>]_vars

\* C30: partial updates validate the resulting row.  An updateData call
\* whose filter matches rows, each of which satisfies the schema once merged
\* with the patch, is not refused by the validation, also when the patch
\* alone lacks a required field.
PartialUpdateValidatesResult ==
    [][\A x \in TxIds, f \in Filters, p \in SchemaPatches :
           LET matched == FilterRows(ReadData("A").rows, f) IN
           (/\ UpdateDataCall(x, "A", f, p)
            /\ matched # <<>>
            /\ \A i \in 1..Len(matched) :
                   ValidateSchema(schemas, "A", Merge(matched[i], p)) = "none") =>
               /\ calls'[x].kind = "update"
               /\ callResult'[x] = callResult[x]]_vars

\* ----------------------------------------------------- own-writes claims
\* the updateData or deleteData call of transaction x returns normally
FilterCallReturns(x) ==
    /\ callStatus[x] = "granted"
    /\ calls[x].kind \in {"update", "delete"}
    /\ calls[x].hasTransaction
    /\ callStatus'[x] = "none"
    /\ callResult'[x] = "ok"

\* C31: operations of one transaction see each other.  When an updateData or
\* deleteData call of a transaction returns, it has buffered one operation
\* for every row its filter matches among the rows of the table as the
\* operations buffered earlier in the transaction leave them.
OwnWritesVisible ==
    [][\A x \in TxIds :
           FilterCallReturns(x) =>
               LET view == RowsAfter(tables[calls[x].tableName], txOps[x], 1,
                                     calls[x].tableName)
               IN  view.error = "none" =>
                       Len(txOps'[x]) - Len(txOps[x]) =
                           Len(FilterRows(view.rows, calls[x].filter))]_vars


\* ---- claims about the salt file and close()

\* C32 as stated: once the engine is initialized, wal/.salt exists exactly
\* when the encrypt and the walEnabled option are both true
SaltFileIffEncryptAndWal ==
    phase = "ready" => (saltFile <=> (options.encrypt /\ options.walEnabled))

\* C32: once the engine is initialized on a new directory, wal/.salt exists
\* exactly when the encrypt option is true, whatever walEnabled is
SaltFileIffEncrypt == phase = "ready" => (saltFile <=> options.encrypt)

\* the engine has been closed and opened again with encrypt on and the WAL off,
\* and the salt file is there
SaltFileWithoutWal ==
    /\ phase = "ready"
    /\ nextTx > 1
    /\ transactions = {}
    /\ \A x \in TxIds : txLocks[x] = {} /\ callStatus[x] = "none"
    /\ options.encrypt
    /\ ~options.walEnabled
    /\ saltFile

\* a close() call returns in this step
CloseReturns == closeCalls' > closeCalls

\* the lock table, the waiter queues and the transaction map are empty and the
\* key, the WAL key and the salt are gone
Cleared ==
    /\ \A t \in Tables : locks[t] = NoTx /\ lockQueue[t] = <<>>
    /\ transactions = {}
    /\ encryptionKey = NoKey
    /\ walKey = NoWALKey
    /\ walSalt = NoKey

\* C33: when close() returns, the lock table, the waiter queues and the
\* transaction map are empty and the key, the WAL key and the salt are gone;
\* close() on a closed engine returns without an error and changes nothing
IdempotentClose ==
    [][CloseReturns =>
           /\ Cleared'
           /\ phase' = "closed"
           /\ phase = "closed" =>
                  UNCHANGED <<now, options, listeners, schemas, retyped, saltFile, indexFiles, walPadding, slimDB,
                              walSalt, walKey, phase, tables, indexes, lockVars,
                              txVars, walVars, crashes, lastIntent,
                              fileVars>>]_vars

\* close() has returned a second time on an engine that was closed while a
\* transaction held a lock and another waited for it, with the WAL key derived
ClosedTwice ==
    /\ phase = "closed"
    /\ closeCalls >= 2
    /\ options.encrypt /\ options.walEnabled
    /\ \E x \in TxIds : txLocks[x] # {}
    /\ \E x \in TxIds : callStatus[x] = "waiting"


\* ---- claims about the holders of the locks

\* C34: the holder recorded for each table lock is an active transaction, also
\* after a rollback issued while an operation of the transaction waits in a
\* lock queue
LockHoldersLive == \A t \in Tables : locks[t] # NoTx => locks[t] \in transactions


\* ---- claims about flushes in flight

\* the lines of the segments that hold the entry numbered n
LinesOf(n) ==
    {l \in 1..Len(walDisk) :
         DecryptWALData(encryptionKey, walDisk[l]).data.sequence = n}

Buffered(n) == \E i \in 1..Len(walBuffer) : walBuffer[i].sequence = n

\* C35: under any interleaving of _writeWAL calls, checkpoints and flushes,
\* every entry _writeWAL has buffered is still in the buffer or in a segment,
\* and in no more than one line of the segments
WalEntriesOnce ==
    \A n \in 1..walSequence :
        /\ Cardinality(LinesOf(n)) <= 1
        /\ Buffered(n) \/ LinesOf(n) # {}

\* the first half alone: no entry that was buffered is lost when the buffer
\* is emptied
WalEntriesKept == \A n \in 1..walSequence : Buffered(n) \/ LinesOf(n) # {}

\* the second half alone: no entry is in two lines of the segments
WalEntriesNotTwice == \A n \in 1..walSequence : Cardinality(LinesOf(n)) <= 1


\* ---- claims about failed inserts

\* the index is what createIndex builds from the rows of its table
AsBuilt(index) ==
    index.data = BuildIndexData(tables[index.tableName], index.columns,
                                index.unique, EmptyMap).data

\* C36: between addData calls without a transaction id no lock is held, no
\* transaction is active and every index of the table is what createIndex
\* builds from the rows; a successful insert keeps this and a failed insert,
\* which must change nothing, keeps it as well
FailedInsertNoTrace ==
    NoneOpen =>
        /\ \A t \in Tables : locks[t] = NoTx /\ lockQueue[t] = <<>>
        /\ \A i \in 1..Len(indexes) : AsBuilt(indexes[i])

\* the same while no insert has failed
InsertsKeepIndexes ==
    (NoneOpen /\ \A x \in TxIds : /\ callResult[x] \in {"none", "ok"}
                                  /\ commitResult[x] \subseteq {"ok"}) =>
        /\ \A t \in Tables : locks[t] = NoTx /\ lockQueue[t] = <<>>
        /\ \A i \in 1..Len(indexes) : AsBuilt(indexes[i])


\* ---- claims about indexes and restarts

\* the inner addData of transaction x returns or throws in this step, and its
\* row has the key of a row of the table under a unique index saved in the
\* directory
DuplicatesSavedKey(x) ==
    /\ callStatus[x] = "granted"
    /\ calls[x].kind = "add"
    /\ callStatus'[x] = "none"
    /\ \E f \in indexFiles :
           /\ f.unique
           /\ f.tableName = calls[x].tableName
           /\ \E n \in 1..Len(tables[f.tableName]) :
                  BuildIndexKey(tables[f.tableName][n], f.columns) =
                      BuildIndexKey(calls[x].data, f.columns)

\* C37: an insert that duplicates the key of an existing row under a unique
\* index created in the directory is rejected with a unique violation, also
\* after close() and reopening
UniqueSurvivesRestart ==
    [][\A x \in TxIds :
           DuplicatesSavedKey(x) => callResult'[x] = "UniqueViolation"]_vars


\* ---- claims about the history of validations

\* _validateSchema of the row against the schema as createTable was given it
ValidateDeclared(tableName, data) ==
    IF schemas[tableName] = NoSchema THEN "none"
    ELSE ValidateProperties(data, SchemaDefinition(schemas[tableName]), 1)

\* C38: whether addData accepts a row depends only on the row and on the
\* schema as declared at createTable, whatever rows were validated before
ValidationHistoryIndependent ==
    [][\A x \in TxIds, row \in TagRows :
           AddDataCall(x, "A", row) =>
               ((callStatus'[x] = "none" /\ callResult'[x] = "Type mismatch") <=>
                    (ValidateDeclared("A", row) = "Type mismatch"))]_vars


\* ---- claims about the WAL padding

\* the smallest multiple of blockSize that is at least n
SmallestMultiple(blockSize, n) ==
    CHOOSE m \in {blockSize * k : k \in 0..n} :
        m >= n /\ \A k \in 0..n : blockSize * k >= n => blockSize * k >= m

\* C39: the padded buffer of a plaintext of n bytes under block size B > 4 has
\* the smallest multiple of B that is at least n + 4 as its length and n,
\* big-endian, in its last four bytes; unpadding it gives the n bytes back; a
\* trailer that gives more than the padded length less 4 is rejected
PaddingRoundTrip ==
    LET n == Len(walPadding.plaintext)
        padded == walPadding.padded
        trailer == SubSeq(padded, Len(padded) - 3, Len(padded))
    IN  /\ (walPadding.pc # "plain" /\ ~walPadding.rewritten) =>
               /\ Len(padded) = SmallestMultiple(options.walPaddingSize, n + 4)
               /\ trailer = UInt32BE(n)
               /\ trailer[1] * 16777216 + trailer[2] * 65536 + trailer[3] * 256
                      + trailer[4] = n
        /\ (walPadding.pc = "removed" /\ ~walPadding.rewritten) =>
               walPadding.removed = [error |-> "none", data |-> walPadding.plaintext]
        /\ (walPadding.pc = "removed"
               /\ ReadUInt32BE(padded, Len(padded) - 4) > Len(padded) - 4) =>
               walPadding.removed.error = "Invalid original length"

\* a plaintext that needs a second block has gone through padding and
\* unpadding
PaddedTwoBlocks ==
    /\ walPadding.pc = "removed"
    /\ ~walPadding.rewritten
    /\ Len(walPadding.plaintext) + 4 = options.walPaddingSize + 1
    /\ Len(walPadding.padded) = 2 * options.walPaddingSize


\* ---- claims about the legacy store

\* the types of the operations the commit loop came to for the transaction
ExecutedFor(S, transactionId) ==
    LET own == SelectSeq(S.executed, LAMBDA e : e[1] = transactionId)
    IN  [n \in 1..Len(own) |-> own[n][2]]

\* C40: a commitTransaction(T) that completes has executed every operation
\* buffered in T, in buffer order and whatever its type, and has removed T
\* from the transactions map; a readData call without a transaction id leaves
\* no transaction behind
LegacyCommitRunsAll ==
    [][/\ \A x \in LegacyIds, found \in BOOLEAN :
              (LegacyCommitTransaction(x, found)
                   /\ LegacyCommitFrom(slimDB, x, 1, found).error = "none") =>
                  /\ ExecutedFor(slimDB', x) = slimDB.operations[x]
                  /\ x \notin slimDB'.transactions
       /\ LegacyReadDataCall => slimDB'.transactions = slimDB.transactions]_vars

\* the first half alone, for transactions that hold no read operation
LegacyCommitRunsAllButRead ==
    [][\A x \in LegacyIds, found \in BOOLEAN :
           (/\ LegacyCommitTransaction(x, found)
            /\ LegacyCommitFrom(slimDB, x, 1, found).error = "none"
            /\ \A n \in 1..Len(slimDB.operations[x]) :
                   slimDB.operations[x][n] # "read") =>
               /\ ExecutedFor(slimDB', x) = slimDB.operations[x]
               /\ x \notin slimDB'.transactions]_vars

====
